---- MODULE Spec2Model ----
(***************************************************************************)
(* Model of the broadcast control plane of shauntpetro/broadcast-system:   *)
(*   lib/YouTubeChatScraper.js  the live-chat poller and its dedup set     *)
(*   lib/broadcast.js           batching / delta engine, session registry  *)
(*   lib/rateLimit.js           per-connection rate limiter                *)
(*   lib/state.js               the shared state tree                      *)
(*   server.js (modular)        WebSocket handlers and scraper callbacks   *)
(*                                                                         *)
(* Node runs a handler to completion between two awaits on network I/O,    *)
(* so every action is one such run-to-completion block.  The code of a     *)
(* block is a sequence of statements; it is written here as operators on   *)
(* one record W (World) holding everything the program can read and write, *)
(* and the action stores the record the block ends with (SetWorld).        *)
(***************************************************************************)
EXTENDS Integers, Sequences, FiniteSets, TLC

(***************************************************************************)
(* Bounds of the model (not program constants).                            *)
(***************************************************************************)
\* sessions ever accepted in Spec (clientIdCounter stops here)
MaxClients == 1
\* inbound control frames handled per connection in Spec
MaxMsgs == 3
\* broadcast() calls after which no further handler or poll is started
MaxEmit == 5
\* fetchMessages requests in flight at the same time
MaxInflight == 1
\* raw chat actions in one poll response
MaxActions == 2
\* add_to_queue ids synthesized on top of the starting queue
MaxManual == 1
\* clock advances of one window length
MaxTicks == 2
\* checkRateLimit calls made beyond the limit
MaxOver == 2
\* connection ids the rate limiter is called with in SpecRate
MaxRateIds == 1

(***************************************************************************)
(* Program constants.                                                      *)
(***************************************************************************)
MAX_BATCH_SIZE == 20
BATCH_DELAY == 50
QUEUE_MAX == 100
RATE_LIMIT_WINDOW == 1000
RATE_LIMIT_MAX == 100

(***************************************************************************)
(* Values.                                                                 *)
(***************************************************************************)
\* JavaScript null for a string-valued field
NULL == "null"
\* the live streams of the model, named by their video ids
Streams == {"A", "B"}
\* JavaScript null for state.pinnedMessage
NoItem == [id |-> 0, type |-> "none"]

\* The raw chat actions the external feed can deliver for a stream.  Source
\* item ids are unique per source, so an id belongs to one stream; id 2 is a
\* paid message (liveChatPaidMessageRenderer), the others are text messages.
RawActions(v) ==
    IF v = "A"
    THEN {[id |-> 1, renderer |-> "text"], [id |-> 2, renderer |-> "paid"]}
    ELSE {[id |-> 3, renderer |-> "text"]}

\* The stream a source item id was fetched from.  Items made by add_to_queue
\* (ids above 10) come from no stream: they are the exempt, manual items.
StreamOf(id) ==
    IF id \in {1, 2} THEN "A" ELSE IF id = 3 THEN "B" ELSE NULL

\* ids synthesized by add_to_queue: `manual_${Date.now()}_${random}`
ManualId(k) == 10 + k

\* What a connect message can carry as message.url.
Urls ==
    { [form |-> "id", v |-> "A"], [form |-> "watch", v |-> "B"],
      [form |-> "bad", v |-> NULL] }

VARIABLES
    scraper,            \* the YouTubeChatScraper instance
    timers,             \* setInterval handles that are still active
    timerCount,         \* setInterval handles issued so far
    fetches,            \* fetchMessages calls awaiting their response
    starts,             \* connect handlers awaiting fetchInitialData
    stopCount,          \* number of scraper.stop() calls so far
    state,              \* lib/state.js
    manualCount,        \* add_to_queue ids synthesized so far
    admitted,           \* every item pushed on state.queue, in order
    clients,            \* broadcast.js clients
    readyState,         \* ws.readyState of every accepted socket
    clientIdCounter,    \* server.js clientIdCounter
    messageBatch,       \* broadcast.js messageBatch {queue, timeout}
    flushTimers,        \* setTimeout(flushBatch) callbacks still to fire
    lastBroadcastState, \* broadcast.js lastBroadcastState
    lastDelta,          \* what the last broadcastStateChanges call was given and did
    received,           \* frames each socket was sent, in order
    emitted,            \* number of broadcast() calls so far
    callbacks,          \* items handed to the scraper callbacks, in order
    rateLimits,         \* rateLimit.js rateLimits
    checks,             \* results of checkRateLimit in the current window
    ticks,              \* clock advances so far
    health,             \* failed polls in a row; a poll followed a fatal failure
    thrown,             \* the sockets whose send() threw, in order
    rateLog,            \* the rate limiter's calls as its callers saw them
    http,               \* HTTP requests served so far and the last response's status
    wsClient,           \* a page's BroadcastWSClient and the sockets it created
    live,               \* the objects a caller of broadcastStateChanges holds
    now                 \* Date.now()

vars ==
    << scraper, timers, timerCount, fetches, starts, stopCount, state,
       manualCount, admitted, clients, readyState, clientIdCounter,
       messageBatch, flushTimers, lastBroadcastState, lastDelta, received,
       emitted, callbacks, rateLimits, checks, ticks, health, thrown,
       rateLog, http, wsClient, live, now >>

\* The engine of lib/broadcast.js with the sockets it writes to.
Engine ==
    [batch |-> messageBatch, timers |-> flushTimers, recv |-> received,
     n |-> emitted, clients |-> clients, readyState |-> readyState,
     thrown |-> thrown]

World ==
    [scraper |-> scraper, timers |-> timers, timerCount |-> timerCount,
     fetches |-> fetches, starts |-> starts, stopCount |-> stopCount,
     state |-> state, manualCount |-> manualCount, admitted |-> admitted,
     clientIdCounter |-> clientIdCounter, E |-> Engine,
     snapshot |-> lastBroadcastState, lastDelta |-> lastDelta,
     log |-> callbacks, rateLimits |-> rateLimits, checks |-> checks,
     ticks |-> ticks, health |-> health, rateLog |-> rateLog,
     http |-> http, wsClient |-> wsClient, live |-> live, now |-> now]

SetWorld(W) ==
    /\ scraper' = W.scraper
    /\ timers' = W.timers
    /\ timerCount' = W.timerCount
    /\ fetches' = W.fetches
    /\ starts' = W.starts
    /\ stopCount' = W.stopCount
    /\ state' = W.state
    /\ manualCount' = W.manualCount
    /\ admitted' = W.admitted
    /\ clients' = W.E.clients
    /\ readyState' = W.E.readyState
    /\ clientIdCounter' = W.clientIdCounter
    /\ messageBatch' = W.E.batch
    /\ flushTimers' = W.E.timers
    /\ lastBroadcastState' = W.snapshot
    /\ lastDelta' = W.lastDelta
    /\ received' = W.E.recv
    /\ emitted' = W.E.n
    /\ callbacks' = W.log
    /\ rateLimits' = W.rateLimits
    /\ checks' = W.checks
    /\ ticks' = W.ticks
    /\ health' = W.health
    /\ thrown' = W.E.thrown
    /\ rateLog' = W.rateLog
    /\ http' = W.http
    /\ wsClient' = W.wsClient
    /\ live' = W.live
    /\ now' = W.now

\* the variables hold the world W (used by the initial predicates)
StartsAs(W) ==
    /\ scraper = W.scraper
    /\ timers = W.timers
    /\ timerCount = W.timerCount
    /\ fetches = W.fetches
    /\ starts = W.starts
    /\ stopCount = W.stopCount
    /\ state = W.state
    /\ manualCount = W.manualCount
    /\ admitted = W.admitted
    /\ clients = W.E.clients
    /\ readyState = W.E.readyState
    /\ clientIdCounter = W.clientIdCounter
    /\ messageBatch = W.E.batch
    /\ flushTimers = W.E.timers
    /\ lastBroadcastState = W.snapshot
    /\ lastDelta = W.lastDelta
    /\ received = W.E.recv
    /\ emitted = W.E.n
    /\ callbacks = W.log
    /\ rateLimits = W.rateLimits
    /\ checks = W.checks
    /\ ticks = W.ticks
    /\ health = W.health
    /\ thrown = W.E.thrown
    /\ rateLog = W.rateLog
    /\ http = W.http
    /\ wsClient = W.wsClient
    /\ live = W.live
    /\ now = W.now

\* the sequence s without its i-th element
RemoveAt(s, i) == SubSeq(s, 1, i - 1) \o SubSeq(s, i + 1, Len(s))

\* the last n elements of s (all of s when it is shorter)
LastN(s, n) == IF Len(s) > n THEN SubSeq(s, Len(s) - n + 1, Len(s)) ELSE s

(***************************************************************************)
(* lib/broadcast.js.  E is the Engine record.                              *)
(***************************************************************************)
\* ws.send(p) on the socket of session c
SendOne(E, c, payload) ==
    [E EXCEPT !.recv[c] = Append(E.recv[c], payload)]

\* the send loop without its readyState test
RECURSIVE SendEachAnyState(_, _, _)
SendEachAnyState(E, cs, payload) ==
    IF cs = {} THEN E
    ELSE LET c == CHOOSE x \in cs : TRUE
         IN  SendEachAnyState(SendOne(E, c, payload), cs \ {c}, payload)

\* for (const client of cs) if (client.readyState === OPEN) client.send(p)
RECURSIVE SendEach(_, _, _)
SendEach(E, cs, payload) ==
    IF cs = {} THEN E
    ELSE LET c == CHOOSE x \in cs : TRUE
         IN  SendEach(IF E.readyState[c] = "OPEN" THEN SendOne(E, c, payload) ELSE E,
                      cs \ {c}, payload)

\* the send loop over the registered sockets
SendAll(E, payload) == SendEach(E, E.clients, payload)

\* a flush that leaves the timer handle recorded
flushBatchKeepsHandle(E) ==
    IF E.batch.queue = << >>
    THEN E
    ELSE LET sent == SendAll(E, [type |-> "batch", messages |-> E.batch.queue])
         IN  [sent EXCEPT !.batch.queue = << >>]

\* a flush that leaves the events it sent in the queue
flushBatchKeepsQueue(E) ==
    IF E.batch.queue = << >>
    THEN E
    ELSE LET sent == SendAll(E, [type |-> "batch", messages |-> E.batch.queue])
         IN  [sent EXCEPT !.batch.timeout = FALSE]

flushBatch(E) ==
    IF E.batch.queue = << >>
    THEN E
    ELSE LET sent == SendAll(E, [type |-> "batch", messages |-> E.batch.queue])
         IN  [sent EXCEPT !.batch = [queue |-> << >>, timeout |-> FALSE]]

immediateTypes ==
    { "status", "error", "init", "slideshow_init", "slideshow_update",
      "sports_ticker_init", "sports_ticker_update", "state_delta", "pin",
      "queue_update" }

\* broadcast() flushing only when the queue has grown beyond MAX_BATCH_SIZE
broadcastFlushesLate(E, type, data, immediate) ==
    LET message == [type |-> type, data |-> data, n |-> E.n + 1]
        shouldBatch == ~immediate /\ type \notin immediateTypes
        E1 == [E EXCEPT !.n = E.n + 1]
    IN  IF shouldBatch /\ BATCH_DELAY > 0
        THEN LET pushed == [E1 EXCEPT !.batch.queue = Append(E1.batch.queue, message)]
             IN  IF Len(pushed.batch.queue) > MAX_BATCH_SIZE
                 THEN flushBatch([pushed EXCEPT !.timers =
                                     IF pushed.batch.timeout /\ pushed.timers > 0
                                     THEN pushed.timers - 1 ELSE pushed.timers])
                 ELSE IF ~pushed.batch.timeout
                 THEN [pushed EXCEPT !.batch.timeout = TRUE, !.timers = pushed.timers + 1]
                 ELSE pushed
        ELSE SendAll(E1, message)

\* broadcast() that queues a batched event without arming the flush timer
broadcastNoTimer(E, type, data, immediate) ==
    LET message == [type |-> type, data |-> data, n |-> E.n + 1]
        shouldBatch == ~immediate /\ type \notin immediateTypes
        E1 == [E EXCEPT !.n = E.n + 1]
    IN  IF shouldBatch /\ BATCH_DELAY > 0
        THEN LET pushed == [E1 EXCEPT !.batch.queue = Append(E1.batch.queue, message)]
             IN  IF Len(pushed.batch.queue) >= MAX_BATCH_SIZE
                 THEN flushBatch([pushed EXCEPT !.timers =
                                     IF pushed.batch.timeout /\ pushed.timers > 0
                                     THEN pushed.timers - 1 ELSE pushed.timers])
                 ELSE pushed
        ELSE SendAll(E1, message)

\* broadcast(type, data, options).  The field n of a message numbers the
\* broadcast() calls: it is the emission order of the events.
broadcast(E, type, data, immediate) ==
    LET message == [type |-> type, data |-> data, n |-> E.n + 1]
        shouldBatch == ~immediate /\ type \notin immediateTypes
        E1 == [E EXCEPT !.n = E.n + 1]
    IN  IF shouldBatch /\ BATCH_DELAY > 0
        THEN LET pushed == [E1 EXCEPT !.batch.queue = Append(E1.batch.queue, message)]
             IN  IF Len(pushed.batch.queue) >= MAX_BATCH_SIZE
                 THEN \* clearTimeout(messageBatch.timeout); flushBatch()
                      flushBatch([pushed EXCEPT !.timers =
                                     IF pushed.batch.timeout /\ pushed.timers > 0
                                     THEN pushed.timers - 1 ELSE pushed.timers])
                 ELSE IF ~pushed.batch.timeout
                 THEN \* messageBatch.timeout = setTimeout(flushBatch, BATCH_DELAY)
                      [pushed EXCEPT !.batch.timeout = TRUE, !.timers = pushed.timers + 1]
                 ELSE pushed
        ELSE SendAll(E1, message)

\* addClient(ws) for the socket of a new session c, which is OPEN
addClient(E, c) ==
    [E EXCEPT !.clients = E.clients \cup {c},
              !.readyState = Append(E.readyState, "OPEN"),
              !.recv = Append(E.recv, << >>)]

\* removeClient(ws)
removeClient(E, c) == [E EXCEPT !.clients = E.clients \ {c}]

(***************************************************************************)
(* lib/YouTubeChatScraper.js                                               *)
(***************************************************************************)
\* extractVideoId: an 11-character id, a watch?v= URL, a youtu.be URL and a
\* /live/ URL yield the id they carry; anything else yields null.
extractVideoId(url) ==
    IF url.form \in {"id", "watch", "short", "live"} THEN url.v ELSE NULL

\* setVideoId after extractVideoId returned v # null
setVideoId(S, v) ==
    [S EXCEPT !.videoId = v, !.continuation = NULL, !.apiKey = NULL,
              !.seenMessageIds = {}]

\* parseTextMessage / parseSuperchat: the fields of the item the model keeps
parseTextMessage(renderer) == [id |-> renderer.id, type |-> "message"]
parseSuperchat(renderer) == [id |-> renderer.id, type |-> "superchat"]

\* the dedup test of fetchMessages: is the parsed item new?
IsNew(seen, item) == item.id \notin seen

\* The parse loop of fetchMessages over the response's actions: the new
\* seenMessageIds, the returned messages and, in call order, the superchats
\* handed to superchatCallback.
RECURSIVE parseActions(_, _)
parseActions(actions, acc) ==
    IF actions = << >>
    THEN acc
    ELSE LET a == Head(actions)
             item == IF a.renderer = "text" THEN parseTextMessage(a)
                     ELSE parseSuperchat(a)
             next ==
                 IF ~IsNew(acc.seen, item) THEN acc
                 ELSE [seen |-> acc.seen \cup {item.id},
                       messages |-> Append(acc.messages, item),
                       superchats |-> IF a.renderer = "paid"
                                      THEN Append(acc.superchats, item)
                                      ELSE acc.superchats]
         IN  parseActions(Tail(actions), next)

\* stop(): the scraper's fields (clearInterval is in stopScraper)
stop(S) == [S EXCEPT !.pollInterval = 0, !.isRunning = FALSE]

(***************************************************************************)
(* server.js: the scraper callbacks.  A callback reads and writes W.state  *)
(* and W.E; W.log records the callback invocations, tagged with the poll   *)
(* timer that issued the fetch and with whether stop() was called while    *)
(* the fetch was in flight.                                                *)
(***************************************************************************)
\* an admission that keeps the oldest QUEUE_MAX items (slice(0, 100)): the
\* eviction order C6 excludes
AdmitKeepOldest(queue, x) ==
    LET q == Append(queue, x)
    IN  IF Len(q) > QUEUE_MAX THEN SubSeq(q, 1, QUEUE_MAX) ELSE q

\* state.queue.push(x); if (length > 100) queue = queue.slice(-100)
Admit(queue, x) ==
    LET q == Append(queue, x)
    IN  IF Len(q) > QUEUE_MAX THEN SubSeq(q, Len(q) - QUEUE_MAX + 1, Len(q)) ELSE q

\* scraper.onMessage((msg) => ...)
onMessage(W, msg, tag) ==
    LET q == Admit(W.state.queue, msg)
        E1 == broadcast(W.E, "message", [message |-> msg], FALSE)
        E2 == broadcast(E1, "queue_update", [queue |-> q], FALSE)
    IN  [W EXCEPT !.state.queue = q, !.E = E2,
                  !.admitted = Append(W.admitted, msg),
                  !.log = Append(W.log, [cb |-> "message", id |-> msg.id,
                                         timer |-> tag.timer, stale |-> tag.stale])]

\* scraper.onSuperchat((superchat) => ...)
onSuperchat(W, superchat, tag) ==
    [W EXCEPT !.E = broadcast(W.E, "superchat", [superchat |-> superchat], FALSE),
              !.log = Append(W.log, [cb |-> "superchat", id |-> superchat.id,
                                     timer |-> tag.timer, stale |-> tag.stale])]

\* scraper.onError((error) => ...)
onError(E, text) == broadcast(E, "error", [error |-> text], FALSE)

RECURSIVE forEachSuperchat(_, _, _)
forEachSuperchat(W, items, tag) ==
    IF items = << >> THEN W
    ELSE forEachSuperchat(onSuperchat(W, Head(items), tag), Tail(items), tag)

\* for (const msg of messages) if (this.messageCallback) this.messageCallback(msg)
RECURSIVE forEachMessage(_, _, _)
forEachMessage(W, items, tag) ==
    IF items = << >> THEN W
    ELSE forEachMessage(onMessage(W, Head(items), tag), Tail(items), tag)

(***************************************************************************)
(* lib/rateLimit.js                                                        *)
(***************************************************************************)
\* a limiter that denies from the RATE_LIMIT_MAX-th call on (count >= max):
\* the boundary C9 excludes
checkRateLimitInclusive(RL, clientId, t) ==
    LET expired == clientId \notin DOMAIN RL \/ t > RL[clientId].resetTime
        clientLimit == IF expired
                       THEN [count |-> 0, resetTime |-> t + RATE_LIMIT_WINDOW]
                       ELSE RL[clientId]
        counted == [clientLimit EXCEPT !.count = clientLimit.count + 1]
    IN  [limits |-> (clientId :> counted) @@ RL,
         ok |-> ~(counted.count >= RATE_LIMIT_MAX)]

\* checkRateLimit(clientId) at time t: the new rateLimits map and the result
checkRateLimit(RL, clientId, t) ==
    LET expired == clientId \notin DOMAIN RL \/ t > RL[clientId].resetTime
        clientLimit == IF expired
                       THEN [count |-> 0, resetTime |-> t + RATE_LIMIT_WINDOW]
                       ELSE RL[clientId]
        counted == [clientLimit EXCEPT !.count = clientLimit.count + 1]
    IN  [limits |-> (clientId :> counted) @@ RL,
         ok |-> ~(counted.count > RATE_LIMIT_MAX)]

\* The record of the calls kept for the properties: a window opens with the
\* first call for an id and with the first call made after the open window
\* elapsed; results lists what checkRateLimit returned to the calls of the
\* open window, in call order.
Observe(CH, clientId, t, ok) ==
    IF clientId \notin DOMAIN CH \/ t > CH[clientId].first + RATE_LIMIT_WINDOW
    THEN (clientId :> [first |-> t, results |-> << ok >>]) @@ CH
    ELSE [CH EXCEPT ![clientId].results = Append(@, ok)]

\* a call of checkRateLimit(clientId) by any caller
rateCheck(W, clientId) ==
    LET r == checkRateLimit(W.rateLimits, clientId, W.now)
    IN  [W EXCEPT !.rateLimits = r.limits,
                  !.checks = Observe(W.checks, clientId, W.now, r.ok)]

\* the age beyond resetTime at which cleanupRateLimits deletes an entry
CLEANUP_AGE == 60000

\* a sweep that deletes every entry whose window has not ended yet
\* (the comparison turned round)
cleanupRateLimitsLive(RL, t) ==
    LET kept == {clientId \in DOMAIN RL : ~(t < RL[clientId].resetTime + CLEANUP_AGE)}
    IN  [clientId \in kept |-> RL[clientId]]

\* cleanupRateLimits() at time t: the new rateLimits map
cleanupRateLimits(RL, t) ==
    LET kept == {clientId \in DOMAIN RL : ~(t > RL[clientId].resetTime + CLEANUP_AGE)}
    IN  [clientId \in kept |-> RL[clientId]]

\* The limiter as a library caller sees it: allowed lists, per id, the times
\* of the calls that returned true; calls and sweeps count the calls of
\* checkRateLimit and of cleanupRateLimits; unswept is the map the same
\* calls of checkRateLimit build when no sweep runs between them, and ok
\* what the last call returned on that map.
QuietLog ==
    [allowed |-> << >>, calls |-> 0, sweeps |-> 0, unswept |-> << >>,
     ok |-> TRUE]

\* a call of checkRateLimit(clientId) through the module's export, with the
\* record of the call kept for the properties
callCheckRateLimit(W, clientId) ==
    LET r == checkRateLimit(W.rateLimits, clientId, W.now)
        u == checkRateLimit(W.rateLog.unswept, clientId, W.now)
        W1 == [rateCheck(W, clientId) EXCEPT
                   !.rateLog.calls = @ + 1,
                   !.rateLog.unswept = u.limits,
                   !.rateLog.ok = u.ok]
    IN  IF ~r.ok THEN W1
        ELSE IF clientId \in DOMAIN W.rateLog.allowed
        THEN [W1 EXCEPT !.rateLog.allowed[clientId] = Append(@, W.now)]
        ELSE [W1 EXCEPT !.rateLog.allowed = (clientId :> << W.now >>) @@ @]

\* the setInterval(cleanupRateLimits, intervalMs) callback
cleanupTick(W) ==
    [W EXCEPT !.rateLimits = cleanupRateLimits(W.rateLimits, W.now),
              !.rateLog.sweeps = @ + 1]

\* what the last checkRateLimit(clientId) returned
lastResult(W, clientId) ==
    W.checks[clientId].results[Len(W.checks[clientId].results)]

(***************************************************************************)
(* BroadcastWSClient, the shared WebSocket client of the pages.  sockets   *)
(* holds the readyState of every WebSocket the client created, ws the      *)
(* index of this.ws (0 for null), timers the reconnect timers still to     *)
(* fire.  Kept for the properties: wire, the messages handed to            *)
(* WebSocket.send in order; sends and result, the number of send() calls   *)
(* and what the last one returned; tries, the number of new WebSocket(url) *)
(* evaluations; quiet, that disconnect() was called and connect() has not  *)
(* been called by the page since; hung, that the onopen loop cannot end;   *)
(* pageCalls, the connect() and disconnect() calls the page made.          *)
(***************************************************************************)
maxReconnectAttempts == 10

\* new BroadcastWSClient(handlers)
NewClient ==
    [ws |-> 0, reconnectAttempts |-> 0, isConnecting |-> FALSE,
     messageQueue |-> << >>, sockets |-> << >>, timers |-> 0,
     wire |-> << >>, sends |-> 0, result |-> TRUE, tries |-> 0,
     quiet |-> FALSE, hung |-> FALSE, pageCalls |-> 0]

\* this.ws && this.ws.readyState === WebSocket.OPEN
IsOpen(K) == K.ws # 0 /\ K.sockets[K.ws] = "OPEN"

\* scheduleReconnect()
scheduleReconnect(K) ==
    [K EXCEPT !.reconnectAttempts = @ + 1, !.timers = @ + 1]

\* connect(); throws tells whether new WebSocket(url) throws
connect(K, throws) ==
    IF K.isConnecting \/ IsOpen(K) THEN K
    ELSE IF throws
    THEN scheduleReconnect([K EXCEPT !.isConnecting = FALSE, !.tries = @ + 1])
    ELSE [K EXCEPT !.isConnecting = TRUE, !.tries = @ + 1,
                   !.sockets = Append(@, "CONNECTING"),
                   !.ws = Len(K.sockets) + 1]

\* send(type, data) with the message m
send(K, m) ==
    IF IsOpen(K)
    THEN [K EXCEPT !.wire = Append(@, m), !.result = TRUE]
    ELSE [K EXCEPT !.messageQueue = Append(@, m), !.result = FALSE]

\* the while loop of onopen: it ends when the queue is empty, and cannot
\* end when send() puts the message it was given back on the queue
RECURSIVE flushQueued(_)
flushQueued(K) ==
    IF K.messageQueue = << >> THEN K
    ELSE IF ~IsOpen(K) THEN [K EXCEPT !.hung = TRUE]
    ELSE flushQueued(send([K EXCEPT !.messageQueue = Tail(@)],
                          Head(K.messageQueue)))

\* ws.onopen of socket s
onopen(K, s) ==
    flushQueued([K EXCEPT !.sockets[s] = "OPEN", !.isConnecting = FALSE,
                          !.reconnectAttempts = 0])

\* ws.onerror of socket s
onerror(K, s) == [K EXCEPT !.isConnecting = FALSE]

\* ws.onclose of socket s
onclose(K, s, wasClean) ==
    LET K1 == [K EXCEPT !.sockets[s] = "CLOSED", !.isConnecting = FALSE]
    IN  IF ~wasClean /\ K1.reconnectAttempts < maxReconnectAttempts
        THEN scheduleReconnect(K1)
        ELSE K1

\* disconnect(): WebSocket.close() starts the closing handshake of a socket
\* that is connecting or open
disconnect(K) ==
    LET closed == IF K.ws # 0 /\ K.sockets[K.ws] \in {"CONNECTING", "OPEN"}
                  THEN [K EXCEPT !.sockets[K.ws] = "CLOSING"]
                  ELSE K
    IN  [closed EXCEPT !.ws = 0, !.reconnectAttempts = maxReconnectAttempts,
                       !.quiet = TRUE]

(***************************************************************************)
(* server.js: handleWebSocketMessage                                       *)
(***************************************************************************)
\* scraper.stop() with its clearInterval
stopScraper(W) ==
    [W EXCEPT !.timers = W.timers \ {W.scraper.pollInterval},
              !.scraper = stop(W.scraper),
              !.stopCount = W.stopCount + 1]

\* state.queue.find(m => m.id === messageId): index of the first match, or 0
RECURSIVE FindIndex(_, _, _)
FindIndex(queue, messageId, i) ==
    IF i > Len(queue) THEN 0
    ELSE IF queue[i].id = messageId THEN i
    ELSE FindIndex(queue, messageId, i + 1)

\* state.queue.filter(m => m.id !== messageId)
RECURSIVE FilterOut(_, _)
FilterOut(queue, messageId) ==
    IF queue = << >> THEN << >>
    ELSE IF Head(queue).id = messageId THEN FilterOut(Tail(queue), messageId)
    ELSE << Head(queue) >> \o FilterOut(Tail(queue), messageId)

caseConnect(W, m) ==
    LET v == extractVideoId(m.url)
    IN  IF v = NULL
        THEN \* setVideoId throws; catch (error)
             [W EXCEPT !.E = broadcast(W.E, "error",
                                 [error |-> "Invalid YouTube URL or video ID"], FALSE)]
        ELSE LET S1 == setVideoId(W.scraper, v)
             IN  IF S1.isRunning
                 THEN \* start() returns false: "Already running"
                      [W EXCEPT !.scraper = S1,
                                !.E = broadcast(W.E, "error",
                                          [error |-> "Failed to connect to video"], FALSE)]
                 ELSE \* start() awaits fetchInitialData()
                      [W EXCEPT !.scraper = S1,
                                !.starts = Append(W.starts, [videoId |-> v])]

caseDisconnect(W) ==
    LET W1 == stopScraper(W)
    IN  [W1 EXCEPT !.state.isConnected = FALSE, !.state.videoId = NULL,
                   !.E = broadcast(W1.E, "status",
                             [connected |-> FALSE, videoId |-> NULL], FALSE)]

casePinMessage(W, m) ==
    LET i == FindIndex(W.state.queue, m.messageId, 1)
    IN  IF i = 0 THEN W
        ELSE [W EXCEPT !.state.pinnedMessage = W.state.queue[i],
                       !.E = broadcast(W.E, "pin", [message |-> W.state.queue[i]], FALSE)]

caseUnpin(W) ==
    [W EXCEPT !.state.pinnedMessage = NoItem,
              !.E = broadcast(W.E, "pin", [message |-> NoItem], FALSE)]

caseAddToQueue(W, m) ==
    LET newMsg == [id |-> ManualId(W.manualCount + 1),
                   type |-> IF m.isSuperchat THEN "superchat" ELSE "message"]
        q == Admit(W.state.queue, newMsg)
    IN  [W EXCEPT !.manualCount = W.manualCount + 1,
                  !.state.queue = q,
                  !.admitted = Append(W.admitted, newMsg),
                  !.E = broadcast(W.E, "queue_update", [queue |-> q], FALSE)]

\* a removal restarts the admission history from what it leaves in the queue
caseRemoveFromQueue(W, m) ==
    LET q == FilterOut(W.state.queue, m.messageId)
    IN  [W EXCEPT !.state.queue = q,
                  !.admitted = q,
                  !.E = broadcast(W.E, "queue_update", [queue |-> q], FALSE)]

caseClearQueue(W) ==
    [W EXCEPT !.state.queue = << >>,
              !.admitted = << >>,
              !.E = broadcast(W.E, "queue_update", [queue |-> << >>], FALSE)]

\* JavaScript undefined for a field of a frame or of a feature block
Undefined == "undefined"
\* if (x): the truthiness test of a frame field
Truthy(x) == x \notin {Undefined, ""}
\* x !== undefined ? x : old
Given(x, old) == IF x # Undefined THEN x ELSE old

caseUpdateTicker(W, m) ==
    LET a == m.arg
        s == W.state
        sub == IF a.sportsTicker = << >> THEN s.sportsTicker
               ELSE [s.sportsTicker EXCEPT
                        !.brand = Given(a.sportsTicker[1].brand, @),
                        !.category = Given(a.sportsTicker[1].category, @),
                        !.logoUrl = Given(a.sportsTicker[1].logoUrl, @)]
        s1 == [s EXCEPT !.tickerItems = IF Truthy(a.items) THEN a.items ELSE @,
                        !.tickerSpeed = Given(a.speed, @),
                        !.showTicker = Given(a.show, @),
                        !.tickerStyle = IF Truthy(a.style) THEN a.style ELSE @,
                        !.sportsTicker = sub]
    IN  [W EXCEPT !.state = s1,
                  !.E = broadcast(W.E, "ticker_update",
                            [tickerItems |-> s1.tickerItems,
                             tickerSpeed |-> s1.tickerSpeed,
                             showTicker |-> s1.showTicker,
                             tickerStyle |-> s1.tickerStyle,
                             sportsTicker |-> s1.sportsTicker], FALSE)]

caseSlideshowSync(W, m) ==
    LET a == m.arg
        sl == [W.state.slideshow EXCEPT
                  !.slides = Given(a.slides, @),
                  !.currentIndex = Given(a.currentIndex, @),
                  !.isPlaying = Given(a.isPlaying, @),
                  !.globalSettings = IF Truthy(a.globalSettings)
                                     THEN a.globalSettings ELSE @]
    IN  [W EXCEPT !.state.slideshow = sl,
                  !.E = broadcast(W.E, "slideshow_update", sl, FALSE)]

caseSlideshowNavigate(W, m) ==
    LET sl == [W.state.slideshow EXCEPT !.currentIndex = m.arg.index]
    IN  [W EXCEPT !.state.slideshow = sl,
                  !.E = broadcast(W.E, "slideshow_update", sl, FALSE)]

caseSlideshowPlay(W, m) ==
    LET sl == [W.state.slideshow EXCEPT !.isPlaying = m.arg.isPlaying]
    IN  [W EXCEPT !.state.slideshow = sl,
                  !.E = broadcast(W.E, "slideshow_update", sl, FALSE)]

caseSlideshowGet(W, c) ==
    [W EXCEPT !.E = SendOne(W.E, c, [type |-> "slideshow_init",
                                     data |-> W.state.slideshow, n |-> 0])]

caseSportsTickerSync(W, m) ==
    LET a == m.arg
        st == [W.state.sportsTicker EXCEPT
                  !.brand = Given(a.brand, @),
                  !.category = Given(a.category, @),
                  !.topic = Given(a.topic, @),
                  !.description = Given(a.description, @),
                  !.logoUrl = Given(a.logoUrl, @),
                  !.show = Given(a.show, @),
                  !.scrollEnabled = Given(a.scrollEnabled, @),
                  !.scrollSpeed = Given(a.scrollSpeed, @)]
    IN  [W EXCEPT !.state.sportsTicker = st,
                  !.E = broadcast(W.E, "sports_ticker_update", st, FALSE)]

caseSportsTickerGet(W, c) ==
    [W EXCEPT !.E = SendOne(W.E, c, [type |-> "sports_ticker_init",
                                     data |-> W.state.sportsTicker, n |-> 0])]

\* the switch with a default case that unpins
handleUnknownAsUnpin(W, c, m) ==
    CASE m.type = "connect" -> caseConnect(W, m)
      [] m.type = "disconnect" -> caseDisconnect(W)
      [] m.type = "pin_message" -> casePinMessage(W, m)
      [] m.type = "unpin" -> caseUnpin(W)
      [] m.type = "add_to_queue" -> caseAddToQueue(W, m)
      [] m.type = "remove_from_queue" -> caseRemoveFromQueue(W, m)
      [] m.type = "clear_queue" -> caseClearQueue(W)
      [] m.type = "update_ticker" -> caseUpdateTicker(W, m)
      [] m.type = "slideshow_sync" -> caseSlideshowSync(W, m)
      [] m.type = "slideshow_navigate" -> caseSlideshowNavigate(W, m)
      [] m.type = "slideshow_play" -> caseSlideshowPlay(W, m)
      [] m.type = "slideshow_get" -> caseSlideshowGet(W, c)
      [] m.type = "sports_ticker_sync" -> caseSportsTickerSync(W, m)
      [] m.type = "sports_ticker_get" -> caseSportsTickerGet(W, c)
      [] OTHER -> caseUnpin(W)

\* A frame that fails JSON.parse ("#malformed") throws into the catch of the
\* message handler; an unknown type reaches the default case.  Both only log.
\* c is the session of the socket ws the frame came from.
handleWebSocketMessage(W, c, m) ==
    CASE m.type = "connect" -> caseConnect(W, m)
      [] m.type = "disconnect" -> caseDisconnect(W)
      [] m.type = "pin_message" -> casePinMessage(W, m)
      [] m.type = "unpin" -> caseUnpin(W)
      [] m.type = "add_to_queue" -> caseAddToQueue(W, m)
      [] m.type = "remove_from_queue" -> caseRemoveFromQueue(W, m)
      [] m.type = "clear_queue" -> caseClearQueue(W)
      [] m.type = "update_ticker" -> caseUpdateTicker(W, m)
      [] m.type = "slideshow_sync" -> caseSlideshowSync(W, m)
      [] m.type = "slideshow_navigate" -> caseSlideshowNavigate(W, m)
      [] m.type = "slideshow_play" -> caseSlideshowPlay(W, m)
      [] m.type = "slideshow_get" -> caseSlideshowGet(W, c)
      [] m.type = "sports_ticker_sync" -> caseSportsTickerSync(W, m)
      [] m.type = "sports_ticker_get" -> caseSportsTickerGet(W, c)
      [] OTHER -> W

\* frames written with ws.send directly (not through broadcast): n = 0
RateLimitError ==
    [type |-> "error", data |-> [error |-> "Rate limit exceeded. Please slow down."],
     n |-> 0]

InitFrame(W) ==
    [type |-> "init",
     data |-> [queue |-> W.state.queue, pinnedMessage |-> W.state.pinnedMessage,
               isConnected |-> W.state.isConnected, videoId |-> W.state.videoId,
               tickerItems |-> W.state.tickerItems,
               tickerSpeed |-> W.state.tickerSpeed,
               showTicker |-> W.state.showTicker,
               tickerStyle |-> W.state.tickerStyle,
               sportsTicker |-> W.state.sportsTicker],
     n |-> 0]

\* a handler that answers a denied frame with the error but goes on to
\* process it (the return after ws.send left out): what C10 excludes
wsOnMessageNoReturn(W, c, m) ==
    LET W1 == rateCheck(W, c)
    IN  IF ~lastResult(W1, c)
        THEN handleWebSocketMessage(
                 [W1 EXCEPT !.E = SendOne(W1.E, c, RateLimitError)], c, m)
        ELSE handleWebSocketMessage(W1, c, m)

\* ws.on('message', ...) of session c for the frame m
wsOnMessage(W, c, m) ==
    LET W1 == rateCheck(W, c)
    IN  IF ~lastResult(W1, c)
        THEN [W1 EXCEPT !.E = SendOne(W1.E, c, RateLimitError)]
        ELSE handleWebSocketMessage(W1, c, m)

\* wss.on('connection', ...): clientId = ++clientIdCounter; addClient(ws);
\* ws.send(init)
connection(W) ==
    LET c == W.clientIdCounter + 1
        E1 == addClient(W.E, c)
    IN  [W EXCEPT !.clientIdCounter = c,
                  !.E = SendOne(E1, c, InitFrame(W))]

\* the transport of session c starts closing (close frame, network loss)
beginClose(W, c) == [W EXCEPT !.E.readyState[c] = "CLOSING"]

\* ws.on('close', ...): removeClient(ws)
onClose(W, c) ==
    [W EXCEPT !.E = removeClient([W.E EXCEPT !.readyState[c] = "CLOSED"], c)]

(***************************************************************************)
(* The asynchronous halves of the scraper: what runs when an awaited       *)
(* network call settles.                                                   *)
(***************************************************************************)
\* fetchInitialData once the watch page arrived.  page = "live": the page
\* carries the API key and a continuation; "nothing": it carries neither;
\* "throw": the fetch itself failed.  The test is on the scraper's fields.
fetchInitialData(S, videoId, page) ==
    LET S1 == IF page = "live"
              THEN [S EXCEPT !.apiKey = "KEY", !.continuation = videoId]
              ELSE S
    IN  IF page = "throw"
        THEN [S |-> S, ok |-> FALSE, error |-> "fetch failed"]
        ELSE IF S1.apiKey = NULL \/ S1.continuation = NULL
        THEN [S |-> S1, ok |-> FALSE,
              error |-> "Could not find API key or continuation token"]
        ELSE [S |-> S1, ok |-> TRUE, error |-> ""]

\* no failed poll so far
Healthy == [failures |-> 0, fatal |-> FALSE, late |-> FALSE]

\* the error messages classified as fatal (not found, forbidden, ended,
\* disabled, replay)
FatalTexts == {"HTTP 404", "HTTP 403", "chat ended", "chat disabled", "replay"}

\* start() from the await on, then the rest of case 'connect'
startResume(W, p, page) ==
    LET r == fetchInitialData(W.scraper, p.videoId, page)
        h == W.timerCount + 1
    IN  IF r.ok
        THEN [W EXCEPT !.scraper = [r.S EXCEPT !.isRunning = TRUE, !.pollInterval = h],
                       !.timers = W.timers \cup {h},
                       !.timerCount = h,
                       !.state.isConnected = TRUE,
                       !.state.videoId = p.videoId,
                       !.health = Healthy,
                       !.E = broadcast(W.E, "status",
                                 [connected |-> TRUE, videoId |-> p.videoId], FALSE)]
        ELSE [W EXCEPT !.scraper = r.S,
                       !.E = broadcast(onError(W.E, r.error), "error",
                                 [error |-> "Failed to connect to video"], FALSE)]

\* the interval callback up to its await: fetchMessages() posts the request
pollTick(W, t) ==
    [W EXCEPT !.fetches = Append(W.fetches,
                 [continuation |-> W.scraper.continuation, timer |-> t,
                  stops |-> W.stopCount]),
              !.health.late = @ \/ W.health.fatal]

\* fetchMessages from the await on, then the rest of the interval callback.
\* f is the request; resp what the feed answered.
fetchResume(W, f, resp) ==
    IF resp.kind = "throw"
    THEN [W EXCEPT !.E = onError(W.E, resp.error),
                   !.health.failures = @ + 1,
                   !.health.fatal = @ \/ resp.error \in FatalTexts]
    ELSE LET S1 == IF resp.hasCont
                   THEN [W.scraper EXCEPT !.continuation = f.continuation]
                   ELSE W.scraper
             parsed == parseActions(resp.actions,
                           [seen |-> S1.seenMessageIds, messages |-> << >>,
                            superchats |-> << >>])
             tag == [timer |-> f.timer, stale |-> W.stopCount > f.stops]
             W1 == [W EXCEPT !.scraper = [S1 EXCEPT !.seenMessageIds = parsed.seen],
                             !.health.failures = 0]
             W2 == forEachSuperchat(W1, parsed.superchats, tag)
         IN  forEachMessage(W2, parsed.messages, tag)

\* the setTimeout(flushBatch, BATCH_DELAY) callback
flushTimer(W) == [W EXCEPT !.E = flushBatch([W.E EXCEPT !.timers = W.E.timers - 1])]

\* the clock advances by d ms
tick(W, d) == [W EXCEPT !.now = W.now + d, !.ticks = W.ticks + 1]

(***************************************************************************)
(* lib/broadcast.js: delta updates.  A state handed to                     *)
(* broadcastStateChanges is a JavaScript object: a function from its       *)
(* top-level keys to values.  A value is an object literal (its entries in *)
(* insertion order) or null.                                               *)
(***************************************************************************)
\* calls of broadcastStateChanges made in SpecDelta
MaxDeltas == 2

DeltaKeys == {"ticker", "slideshow"}
JsObject(entries) == [t |-> "object", entries |-> entries]
JsNull == [t |-> "null", entries |-> << >>]
JsUndefined == [t |-> "undefined", entries |-> << >>]
DeltaValues ==
    { JsObject(<< <<"text", "hi">>, <<"speed", "1">> >>),
      JsObject(<< <<"speed", "1">>, <<"text", "hi">> >>),
      JsObject(<< <<"text", "yo">>, <<"speed", "1">> >>),
      JsNull }
\* the objects a caller can pass
DeltaStates == UNION {[ks -> DeltaValues] : ks \in SUBSET DeltaKeys}
\* {}: the object without keys
EmptyObject == [k \in {} |-> JsUndefined]

\* obj[key]
Get(obj, key) == IF key \in DOMAIN obj THEN obj[key] ELSE JsUndefined

\* JSON.stringify(value): the text, as the sequence of its tokens.  Entries
\* are written in insertion order, and undefined yields undefined (here the
\* one-token text "undefined", which no other value yields).
RECURSIVE stringifyEntries(_)
stringifyEntries(entries) ==
    IF entries = << >> THEN << >>
    ELSE << Head(entries)[1], ":", Head(entries)[2], "," >>
         \o stringifyEntries(Tail(entries))
JSONstringify(value) ==
    CASE value.t = "object" -> << "{" >> \o stringifyEntries(value.entries) \o << "}" >>
      [] value.t = "null" -> << "null" >>
      [] OTHER -> << "undefined" >>

\* broadcastDelta(changes)
broadcastDelta(E, changes) ==
    IF DOMAIN changes = {} THEN E
    ELSE broadcast(E, "state_delta", changes, TRUE)

\* broadcastStateChanges(newState)
broadcastStateChanges(W, newState) ==
    LET changed == {key \in DOMAIN newState :
                       JSONstringify(newState[key]) #
                           JSONstringify(Get(W.snapshot, key))}
        delta == [key \in changed |-> newState[key]]
    IN  IF changed = {} THEN W
        ELSE [W EXCEPT !.snapshot =
                           [key \in DOMAIN W.snapshot \cup changed |->
                               IF key \in changed THEN delta[key]
                               ELSE W.snapshot[key]],
                       !.E = broadcastDelta(W.E, delta)]

\* the frames a run from world W to world W1 wrote to each socket
FramesSent(W, W1) ==
    [c \in DOMAIN W.E.recv |->
        SubSeq(W1.E.recv[c], Len(W.E.recv[c]) + 1, Len(W1.E.recv[c]))]

\* a call of broadcastStateChanges(newState) through the module's export,
\* with the record of the call kept for the properties
callBroadcastStateChanges(W, newState) ==
    LET W1 == broadcastStateChanges(W, newState)
    IN  [W1 EXCEPT !.lastDelta =
            [calls |-> W.lastDelta.calls + 1, prev |-> W.lastDelta.arg,
             arg |-> newState, before |-> W.snapshot,
             frames |-> FramesSent(W, W1)]]

\* The objects a caller holds under the keys it passes (as the server holds
\* state.slideshow and state.sportsTicker): for each key the object's
\* current value, whether lastBroadcastState[key] is this very object, and
\* the number of in-place changes made so far.
LiveObjects ==
    [ticker |-> [value |-> JsObject(<< <<"text", "hi">>, <<"speed", "1">> >>),
                 shared |-> FALSE],
     slideshow |-> [value |-> JsObject(<< <<"text", "hi">>, <<"speed", "1">> >>),
                    shared |-> FALSE],
     changes |-> 0]

\* the caller assigns to a property of its object under key: the object is
\* changed in place, and with it every reference to it
mutateInPlace(W, key, value) ==
    [W EXCEPT !.live[key].value = value,
              !.live.changes = @ + 1,
              !.snapshot = IF W.live[key].shared
                           THEN [@ EXCEPT ![key] = value]
                           ELSE @]

\* broadcastStateChanges(newState) where newState[key] is the caller's
\* object under key, for the keys given: delta[key] and then
\* lastBroadcastState[key] are that object, not a copy of it
callWithLiveObjects(W, keys) ==
    LET newState == [key \in keys |-> W.live[key].value]
        W1 == callBroadcastStateChanges(W, newState)
        stored == IF W1.lastDelta.frames[1] = << >> THEN {}
                  ELSE DOMAIN W1.lastDelta.frames[1][1].data
    IN  [W1 EXCEPT !.live.ticker.shared = @ \/ "ticker" \in stored,
                   !.live.slideshow.shared = @ \/ "slideshow" \in stored]

(***************************************************************************)
(* The state after the modules are loaded and the server listens.          *)
(***************************************************************************)
Fresh ==
    [scraper |-> [videoId |-> NULL, continuation |-> NULL, apiKey |-> NULL,
                  seenMessageIds |-> {}, isRunning |-> FALSE, pollInterval |-> 0],
     timers |-> {}, timerCount |-> 0, fetches |-> << >>, starts |-> << >>,
     stopCount |-> 0,
     state |-> [queue |-> << >>, pinnedMessage |-> NoItem,
                isConnected |-> FALSE, videoId |-> NULL,
                tickerItems |-> "BREAKING", tickerSpeed |-> "100",
                showTicker |-> "true", tickerStyle |-> "sports",
                sportsTicker |-> [brand |-> "SEMEEX", category |-> "FOOTBALL",
                                  logoUrl |-> "/public/logos/SemeexLogo.png",
                                  topic |-> Undefined, description |-> Undefined,
                                  show |-> Undefined, scrollEnabled |-> Undefined,
                                  scrollSpeed |-> Undefined],
                slideshow |-> [slides |-> "[]", currentIndex |-> "0",
                               isPlaying |-> "false", globalSettings |-> "blur"],
                nametags |-> << "false", "false", "false", "false", "false" >>,
                socialAccounts |-> "[]",
                socialRotationSpeed |-> "5000", showSocials |-> "false",
                lowerThird |-> [visible |-> "false", headline |-> ""],
                agendaItems |-> "[]",
                agendaTitle |-> "TODAY'S AGENDA", showAgenda |-> "false",
                topicCard |-> [visible |-> "false", title |-> ""]],
     manualCount |-> 0, admitted |-> << >>, clientIdCounter |-> 0,
     E |-> [batch |-> [queue |-> << >>, timeout |-> FALSE], timers |-> 0,
            recv |-> << >>, n |-> 0, clients |-> {}, readyState |-> << >>,
            thrown |-> << >>],
     snapshot |-> EmptyObject,
     lastDelta |-> [calls |-> 0, prev |-> EmptyObject, arg |-> EmptyObject,
                    before |-> EmptyObject, frames |-> << >>],
     log |-> << >>, rateLimits |-> << >>, checks |-> << >>, ticks |-> 0,
     health |-> Healthy, rateLog |-> QuietLog,
     http |-> [requests |-> 0, status |-> 0], wsClient |-> NewClient,
     live |-> LiveObjects, now |-> 0]

Init == StartsAs(Fresh)

(***************************************************************************)
(* Inputs.                                                                 *)
(***************************************************************************)
NoUrl == [form |-> "bad", v |-> NULL]
Msg(type, url, messageId, isSuperchat) ==
    [type |-> type, url |-> url, messageId |-> messageId, isSuperchat |-> isSuperchat]

\* ids a pin_message / remove_from_queue can name: those of the queue and
\* one that is in no queue
MessageIds == {state.queue[i].id : i \in 1..Len(state.queue)} \cup {9}

ControlMessages ==
    {Msg("connect", u, 0, FALSE) : u \in Urls}
    \cup {Msg(t, NoUrl, 0, FALSE) :
             t \in {"disconnect", "unpin", "clear_queue", "add_to_queue"}}
    \cup {Msg(t, NoUrl, id, FALSE) :
             t \in {"pin_message", "remove_from_queue"}, id \in MessageIds}

\* a frame of a feature block; arg holds the fields the handler reads
FeatureMsg(type, arg) ==
    [type |-> type, url |-> NoUrl, messageId |-> 0, isSuperchat |-> FALSE,
     arg |-> arg]

\* the feature frames of the model
FeatureMessages ==
    { FeatureMsg("update_ticker",
          [items |-> "NEWS", speed |-> Undefined, show |-> Undefined,
           style |-> Undefined, sportsTicker |-> << >>]),
      FeatureMsg("update_ticker",
          [items |-> Undefined, speed |-> Undefined, show |-> "false",
           style |-> Undefined,
           sportsTicker |-> << [brand |-> "ACME", category |-> Undefined,
                                logoUrl |-> Undefined] >>]),
      FeatureMsg("slideshow_sync",
          [slides |-> "[s1]", currentIndex |-> Undefined,
           isPlaying |-> Undefined, globalSettings |-> Undefined]),
      FeatureMsg("slideshow_navigate", [index |-> "1"]),
      FeatureMsg("slideshow_play", [isPlaying |-> "true"]),
      FeatureMsg("slideshow_get", [none |-> Undefined]),
      FeatureMsg("sports_ticker_sync",
          [brand |-> Undefined, category |-> "TENNIS", topic |-> "final",
           description |-> Undefined, logoUrl |-> Undefined, show |-> "true",
           scrollEnabled |-> Undefined, scrollSpeed |-> Undefined]),
      FeatureMsg("sports_ticker_get", [none |-> Undefined]) }

\* frames that change nothing: an unknown type, and one JSON.parse rejects
SilentMessages ==
    {Msg(t, NoUrl, 0, FALSE) : t \in {"bogus", "#malformed"}}

SeqsUpTo(S, n) == UNION {[1..k -> S] : k \in 0..n}

\* the request or response.json() throws an error with message e
Failure(e) == [kind |-> "throw", actions |-> << >>, hasCont |-> FALSE, error |-> e]

\* what the feed can answer a request for stream v: a failure, or up to n
\* actions, with or without a new continuation token
Responses(v, n) ==
    {Failure("fetch failed")}
    \cup {[kind |-> "data", actions |-> a, hasCont |-> b] :
             a \in SeqsUpTo(RawActions(v), n), b \in BOOLEAN}

\* the count checkRateLimit(c) would reach if it were called now
CountAfter(c) == checkRateLimit(rateLimits, c, now).limits[c].count

(***************************************************************************)
(* Actions.  K bounds the run: K.clients sessions, K.msgs[c] frames of     *)
(* session c per window, K.emit broadcast() calls, K.manual manual ids,    *)
(* K.inflight requests in flight, K.actions actions per response.          *)
(***************************************************************************)
Caps == [clients |-> MaxClients, msgs |-> [c \in 1..MaxClients |-> MaxMsgs],
         emit |-> MaxEmit, manual |-> MaxManual, inflight |-> MaxInflight,
         actions |-> MaxActions]

\* wss.on('connection', ...)
NewConnection(K) ==
    /\ clientIdCounter < K.clients
    /\ SetWorld(connection(World))

\* the transport starts closing
BeginClose(c) ==
    /\ c \in clients
    /\ readyState[c] = "OPEN"
    /\ SetWorld(beginClose(World, c))

\* ws.on('close', ...)
OnClose(c) ==
    /\ c \in clients
    /\ readyState[c] = "CLOSING"
    /\ SetWorld(onClose(World, c))

\* ws.on('message', ...) for socket c and frame m
WsMessage(c, m, K) ==
    /\ c \in clients
    /\ readyState[c] = "OPEN"
    /\ emitted < K.emit
    /\ CountAfter(c) <= K.msgs[c]
    /\ m.type = "add_to_queue" => manualCount < K.manual
    /\ SetWorld(wsOnMessage(World, c, m))

\* the watch-page fetch of the i-th pending start() settles
StartResolved(i, page) ==
    /\ i \in 1..Len(starts)
    /\ SetWorld(startResume([World EXCEPT !.starts = RemoveAt(starts, i)],
                            starts[i], page))

\* the setInterval callback of handle t fires and calls fetchMessages
PollTick(t, K) ==
    /\ t \in timers
    /\ emitted < K.emit
    /\ Len(fetches) < K.inflight
    /\ scraper.apiKey # NULL
    /\ scraper.continuation # NULL
    /\ SetWorld(pollTick(World, t))

\* the response of the i-th request in flight arrives
FetchComplete(i, resp, K) ==
    /\ i \in 1..Len(fetches)
    /\ resp \in Responses(fetches[i].continuation, K.actions)
    /\ SetWorld(fetchResume([World EXCEPT !.fetches = RemoveAt(fetches, i)],
                            fetches[i], resp))

\* a setTimeout(flushBatch, BATCH_DELAY) fires
FlushTimer ==
    /\ flushTimers > 0
    /\ SetWorld(flushTimer(World))

Next ==
    \/ NewConnection(Caps)
    \/ \E c \in clients : BeginClose(c)
    \/ \E c \in clients : OnClose(c)
    \/ \E c \in clients, m \in ControlMessages : WsMessage(c, m, Caps)
    \/ \E i \in 1..Len(starts), page \in {"live", "nothing", "throw"} :
          StartResolved(i, page)
    \/ \E t \in timers : PollTick(t, Caps)
    \/ \E i \in 1..Len(fetches) :
          \E resp \in Responses(fetches[i].continuation, Caps.actions) :
              FetchComplete(i, resp, Caps)
    \/ FlushTimer

Spec == Init /\ [][Next]_vars

(***************************************************************************)
(* SpecRate: the rate limiter as a library.  Callers call                  *)
(* checkRateLimit(id) at any time; the clock advances between calls, by    *)
(* 1 ms or by one window length.  Id 1 goes up to MaxOver calls beyond the *)
(* limit in a window, the other ids make up to MaxOver calls in a window.  *)
(***************************************************************************)
\* some caller calls checkRateLimit(id)
CheckRateLimit(id) ==
    /\ CountAfter(id) <= (IF id = 1 THEN RATE_LIMIT_MAX + MaxOver ELSE MaxOver)
    /\ SetWorld(rateCheck(World, id))

\* time passes
Tick(d) ==
    /\ ticks < MaxTicks
    /\ SetWorld(tick(World, d))

NextRate ==
    \/ \E id \in 1..MaxRateIds : CheckRateLimit(id)
    \/ \E d \in {1, RATE_LIMIT_WINDOW} : Tick(d)

SpecRate == Init /\ [][NextRate]_vars

(***************************************************************************)
(* SpecDelta: one session is connected and the delta export is called with *)
(* arbitrary states.                                                       *)
(***************************************************************************)
DeltaStart == connection(Fresh)

BroadcastStateChanges(newState) ==
    /\ lastDelta.calls < MaxDeltas
    /\ SetWorld(callBroadcastStateChanges(World, newState))

NextDelta == \E newState \in DeltaStates : BroadcastStateChanges(newState)

SpecDelta == StartsAs(DeltaStart) /\ [][NextDelta]_vars

(***************************************************************************)
(* Replays of handlers that build the initial states of SpecQueue and      *)
(* SpecDeny.                                                               *)
(***************************************************************************)
\* session c sends the frame m, n times in a row while its socket is open
\* (the first half of the frames, then the rest)
RECURSIVE sendMany(_, _, _, _)
sendMany(W, c, m, n) ==
    IF n = 0 \/ W.E.readyState[c] # "OPEN" THEN W
    ELSE IF n = 1 THEN wsOnMessage(W, c, m)
    ELSE sendMany(sendMany(W, c, m, n \div 2), c, m, n - (n \div 2))

\* a session connects and connects the poller to stream A, which resolves
Running ==
    LET W1 == wsOnMessage(connection(Fresh), 1,
                          Msg("connect", [form |-> "id", v |-> "A"], 0, FALSE))
    IN  startResume([W1 EXCEPT !.starts = << >>], W1.starts[1], "live")

\* the frame logs of W emptied: the sessions are watched from here on
Watched(W) == [W EXCEPT !.E.recv = [c \in DOMAIN W.E.recv |-> << >>]]

(***************************************************************************)
(* SpecQueue: the queue is one item short of its cap.  The session has     *)
(* added QUEUE_MAX - 1 manual items, and its rate window has elapsed.      *)
(***************************************************************************)
QueueStart ==
    Watched(tick(sendMany(Running, 1, Msg("add_to_queue", NoUrl, 0, FALSE),
                          QUEUE_MAX - 1),
                 RATE_LIMIT_WINDOW + 1))

QueueCaps ==
    [clients |-> 1, msgs |-> [c \in 1..1 |-> MaxMsgs],
     emit |-> QueueStart.E.n + MaxEmit,
     manual |-> QueueStart.manualCount + MaxManual,
     inflight |-> MaxInflight, actions |-> MaxActions]

\* the frames of SpecQueue: admissions only
QueueMessages == {Msg("add_to_queue", NoUrl, 0, s) : s \in BOOLEAN}

NextQueue ==
    \/ \E m \in QueueMessages : WsMessage(1, m, QueueCaps)
    \/ \E t \in timers : PollTick(t, QueueCaps)
    \/ \E i \in 1..Len(fetches) :
          \E resp \in Responses(fetches[i].continuation, QueueCaps.actions) :
              FetchComplete(i, resp, QueueCaps)
    \/ FlushTimer

SpecQueue == StartsAs(QueueStart) /\ [][NextQueue]_vars

(***************************************************************************)
(* SpecDeny: two sessions; session 1 has connected the poller and sent     *)
(* frames of an unknown type until one more frame exhausts its window.     *)
(* Session 1 goes on sending frames, session 2 listens and may close.      *)
(***************************************************************************)
DenyStart ==
    Watched(sendMany(connection(Running), 1, Msg("bogus", NoUrl, 0, FALSE),
                     RATE_LIMIT_MAX - 2))

DenyCaps ==
    [clients |-> 2,
     msgs |-> [c \in 1..2 |-> IF c = 1 THEN RATE_LIMIT_MAX + MaxOver ELSE MaxOver],
     emit |-> DenyStart.E.n + MaxOver,
     manual |-> MaxManual, inflight |-> 1, actions |-> 1]

NextDeny ==
    \/ \E c \in clients \ {1} : BeginClose(c)
    \/ \E c \in clients \ {1} : OnClose(c)
    \/ \E m \in ControlMessages : WsMessage(1, m, DenyCaps)
    \/ \E t \in timers : PollTick(t, DenyCaps)
    \/ \E i \in 1..Len(fetches) :
          \E resp \in Responses(fetches[i].continuation, DenyCaps.actions) :
              FetchComplete(i, resp, DenyCaps)
    \/ FlushTimer

SpecDeny == StartsAs(DenyStart) /\ [][NextDeny]_vars

(***************************************************************************)
(* Properties.                                                             *)
(***************************************************************************)
\* the emission numbers of the events in a socket's frames, in the order
\* the socket received them, batches expanded (frames written with ws.send
\* directly carry no emission number)
RECURSIVE Numbers(_)
Numbers(frames) ==
    IF frames = << >> THEN << >>
    ELSE LET f == Head(frames)
             ns == IF f.type = "batch"
                   THEN [i \in 1..Len(f.messages) |-> f.messages[i].n]
                   ELSE IF f.n > 0 THEN << f.n >> ELSE << >>
         IN  ns \o Numbers(Tail(frames))

\* C1: every session observes the events in emission order: an event
\* emitted before another (a batchable event still pending in the batch when
\* an immediate event is emitted) is received before it.
C1_EmissionOrder ==
    \A c \in DOMAIN received :
        LET ns == Numbers(received[c])
        IN  \A i, j \in 1..Len(ns) : i < j => ns[i] < ns[j]

\* C2: a fetch that was in flight when stop() was called is a no-op when it
\* completes: none of its items reaches the message or superchat callback
\* (and so the queue and the sessions).
C2_LateFetchIsNoOp ==
    \A i \in 1..Len(callbacks) : ~callbacks[i].stale

\* the step changes the active stream from one stream to a different one
StreamSwitch ==
    /\ state.videoId \in Streams
    /\ state.videoId' \in Streams
    /\ state.videoId' # state.videoId

\* the step wrote a pin event that carries no item to some socket
UnpinSent ==
    \E c \in DOMAIN received :
        \E i \in (Len(received[c]) + 1)..Len(received'[c]) :
            /\ received'[c][i].type = "pin"
            /\ received'[c][i].data.message = NoItem

\* C3: on a switch of the active stream from A to B, a pinned item tagged A
\* and not exempt is cleared and an unpin event is broadcast; an exempt
\* pinned item stays pinned and no unpin event is broadcast.
C3_SwitchClearsPin ==
    [][StreamSwitch =>
          LET p == state.pinnedMessage
          IN  /\ (p # NoItem /\ StreamOf(p.id) = state.videoId) =>
                    /\ state.pinnedMessage' = NoItem
                    /\ (\E c \in clients : readyState[c] = "OPEN") => UnpinSent
              /\ (p # NoItem /\ StreamOf(p.id) = NULL) =>
                    /\ state.pinnedMessage' = p
                    /\ ~UnpinSent]_vars

\* C4: in every reachable state the pinned item is null, or tagged with the
\* current active stream, or exempt.
C4_PinnedBelongsToStream ==
    \/ state.pinnedMessage = NoItem
    \/ StreamOf(state.pinnedMessage.id) = NULL
    \/ StreamOf(state.pinnedMessage.id) = state.videoId

\* C5: between one start of the poller and its stop, each source item id is
\* handed to a consumer callback at most once, whatever the poll responses
\* repeat.
C5_EmittedAtMostOnce ==
    \A i, j \in 1..Len(callbacks) :
        ( /\ i < j
          /\ callbacks[i].cb = callbacks[j].cb
          /\ callbacks[i].timer = callbacks[j].timer
          /\ ~callbacks[i].stale
          /\ ~callbacks[j].stale )
        => callbacks[i].id # callbacks[j].id

\* C6: the queue never holds more than QUEUE_MAX items, and without removals
\* it holds the most recently admitted items, at most QUEUE_MAX of them, in
\* admission order: exactly QUEUE_MAX once more than that were admitted.
C6_QueueCap ==
    /\ Len(state.queue) <= QUEUE_MAX
    /\ state.queue = LastN(admitted, QUEUE_MAX)

\* more than QUEUE_MAX items were admitted, by add_to_queue and by the
\* poller, and the queue is full
C6_Witness ==
    /\ Len(admitted) > QUEUE_MAX
    /\ Len(state.queue) = QUEUE_MAX
    /\ \E i \in 1..Len(admitted) : StreamOf(admitted[i].id) # NULL
    /\ state.queue[1] # admitted[1]

\* C7: the queue never holds two entries with the same id.
C7_NoDuplicateIds ==
    \A i, j \in 1..Len(state.queue) :
        i < j => state.queue[i].id # state.queue[j].id

\* the entries of an object, without their order
Entries(value) == {value.entries[i] : i \in 1..Len(value.entries)}
\* structural equality of two values
StructEq(u, v) == u.t = v.t /\ Entries(u) = Entries(v)
\* structurally identical states: the same keys with structurally equal values
SameState(a, b) ==
    DOMAIN a = DOMAIN b /\ \A key \in DOMAIN a : StructEq(a[key], b[key])
\* the top-level keys of newState whose value differs from the snapshot's
Differing(newState, snapshot) ==
    {key \in DOMAIN newState : ~StructEq(newState[key], Get(snapshot, key))}

\* C8: broadcastStateChanges is minimal: a call with a state structurally
\* identical to that of the call before it sends nothing, and a call with a
\* state that differs from the snapshot in exactly one top-level key sends
\* exactly one state_delta whose payload holds that key and no other.
C8_DeltaMinimal ==
    lastDelta.calls >= 1 =>
        /\ (lastDelta.calls >= 2 /\ SameState(lastDelta.arg, lastDelta.prev)) =>
              \A c \in DOMAIN lastDelta.frames : lastDelta.frames[c] = << >>
        /\ \A key \in DeltaKeys :
              Differing(lastDelta.arg, lastDelta.before) = {key} =>
                  \A c \in DOMAIN lastDelta.frames :
                      /\ Len(lastDelta.frames[c]) = 1
                      /\ lastDelta.frames[c][1].type = "state_delta"
                      /\ DOMAIN lastDelta.frames[c][1].data = {key}

\* C9: within one window the first RATE_LIMIT_MAX calls of checkRateLimit
\* for an id return allow and every later one returns deny; the first call
\* after the window elapsed opens a window, returns allow, and the count is
\* restarted at 1 (the count is the number of calls of the open window).
C9_RateBoundary ==
    \A id \in DOMAIN checks :
        LET r == checks[id].results
        IN  /\ \A i \in 1..Len(r) : r[i] = (i <= RATE_LIMIT_MAX)
            /\ rateLimits[id].count = Len(r)

\* an id exhausted a window that opened after an earlier window had elapsed
C9_Witness ==
    \E id \in DOMAIN checks :
        /\ checks[id].first > RATE_LIMIT_WINDOW
        /\ Len(checks[id].results) > RATE_LIMIT_MAX
        /\ ~checks[id].results[RATE_LIMIT_MAX + 1]
        /\ checks[id].results[RATE_LIMIT_MAX]

\* the step is the handling of a frame of session c that checkRateLimit denied
Denied(c) ==
    /\ c \in DOMAIN checks'
    /\ rateLimits' # rateLimits
    /\ ~checks'[c].results[Len(checks'[c].results)]
    /\ \A d \in DOMAIN checks : d # c => checks'[d] = checks[d]

\* C10: a denied frame is not processed: the state store and the poller are
\* unchanged, nothing is broadcast, no other session is sent anything, the
\* offending session is sent exactly one error, and it stays registered and
\* open.
C10_DeniedNotProcessed ==
    [][\A c \in clients :
          Denied(c) =>
              /\ state' = state
              /\ << scraper, timers, timerCount, fetches, starts, stopCount >>'
                    = << scraper, timers, timerCount, fetches, starts, stopCount >>
              /\ << messageBatch, flushTimers, emitted, lastBroadcastState >>'
                    = << messageBatch, flushTimers, emitted, lastBroadcastState >>
              /\ \A d \in DOMAIN received : d # c => received'[d] = received[d]
              /\ received'[c] = Append(received[c], RateLimitError)
              /\ clients' = clients
              /\ readyState' = readyState
              /\ readyState'[c] = "OPEN"]_vars

\* session 1 was denied a frame while session 2 was registered and open:
\* it got the error and is still registered and open
C10_Witness ==
    /\ 1 \in DOMAIN rateLimits
    /\ rateLimits[1].count > RATE_LIMIT_MAX
    /\ clients = {1, 2}
    /\ readyState[1] = "OPEN"
    /\ readyState[2] = "OPEN"
    /\ Len(received[1]) > 0
    /\ received[1][Len(received[1])] = RateLimitError

(***************************************************************************)
(* Sessions, poller life cycle, failures and fan-out.                      *)
(***************************************************************************)
\* the frames of type t in a socket's log
FramesOfType(frames, t) == { i \in 1..Len(frames) : frames[i].type = t }

\* C11: every session that has received anything received exactly one init
\* frame, received it first, and the init payload has every block of the
\* state tree (queue, pinned item, connection status and all feature blocks).
C11_InitIsFullState ==
    \A c \in DOMAIN received :
        received[c] # << >> =>
            /\ received[c][1].type = "init"
            /\ Cardinality(FramesOfType(received[c], "init")) = 1
            /\ DOMAIN received[c][1].data = DOMAIN state

\* C12: at most one poll timer is active in every reachable state.
C12_OnePollTimer == Cardinality(timers) <= 1

MAX_SCRAPER_ERRORS == 10

\* broadcast() calls of a run of SpecFail
MaxFail == 11

FailStart == Watched(Running)

FailCaps ==
    [clients |-> 1, msgs |-> [c \in 1..1 |-> 0],
     emit |-> FailStart.E.n + MaxFail, manual |-> 0,
     inflight |-> MaxInflight, actions |-> 0]

\* the response of the i-th request in flight is a failure with message e
FetchFailed(i, e) ==
    /\ i \in 1..Len(fetches)
    /\ SetWorld(fetchResume([World EXCEPT !.fetches = RemoveAt(fetches, i)],
                            fetches[i], Failure(e)))

NextFail ==
    \/ \E t \in timers : PollTick(t, FailCaps)
    \/ \E i \in 1..Len(fetches) :
          \E resp \in Responses(fetches[i].continuation, FailCaps.actions) :
              FetchComplete(i, resp, FailCaps)
    \/ \E i \in 1..Len(fetches) : FetchFailed(i, "HTTP 404")

SpecFail == StartsAs(FailStart) /\ [][NextFail]_vars

\* the poller is stopped: not running and no poll timer active
Stopped == ~scraper.isRunning /\ timers = {}

\* C14: while no failure was fatal, the poller is stopped once
\* MAX_SCRAPER_ERRORS polls in a row have failed, and with fewer failures
\* in a row it is running with its poll timer active.
C14_ThresholdStops ==
    ~health.fatal =>
        IF health.failures >= MAX_SCRAPER_ERRORS
        THEN Stopped
        ELSE scraper.isRunning /\ scraper.pollInterval \in timers

\* C15: once a poll has failed with a fatal error the poller is stopped and
\* no further poll is issued, whatever the number of failures in a row.
C15_FatalStops == health.fatal => Stopped /\ ~health.late

\* the step settles a connect request in failure: start() resumes from
\* fetchInitialData() and creates no interval
ConnectFails ==
    /\ Len(starts') = Len(starts) - 1
    /\ timerCount' = timerCount

\* C16: when a connect request fails because its stream cannot be reached
\* while no stream is connected, no poll timer is started, exactly one error
\* event is broadcast and isConnected is still false.
C16_FailedConnectOneError ==
    [][(ConnectFails /\ ~state.isConnected /\ ~scraper.isRunning) =>
          /\ timers' = timers
          /\ emitted' = emitted + 1
          /\ ~state'.isConnected]_vars

(***************************************************************************)
(* SpecFan: the poller runs on stream A and two sessions are connected.    *)
(* Either session may send frames and may close; immediate events, direct  *)
(* replies and batches are fanned out to the sessions.                     *)
(***************************************************************************)
\* frames and broadcast() calls of a run of SpecFan
MaxFan == 1

FanStart == Watched(connection(Running))

FanCaps ==
    [clients |-> 2, msgs |-> [c \in 1..2 |-> MaxFan],
     emit |-> FanStart.E.n + MaxFan, manual |-> 0,
     inflight |-> 1, actions |-> 1]

\* an immediate event, a batched event and a direct reply
FanMessages ==
    { Msg("unpin", NoUrl, 0, FALSE),
      FeatureMsg("update_ticker",
          [items |-> "NEWS", speed |-> Undefined, show |-> Undefined,
           style |-> Undefined, sportsTicker |-> << >>]),
      FeatureMsg("slideshow_get", [none |-> Undefined]) }

NextFan ==
    \/ \E c \in clients : BeginClose(c)
    \/ \E c \in clients : OnClose(c)
    \/ \E c \in clients, m \in FanMessages : WsMessage(c, m, FanCaps)
    \/ \E t \in timers : PollTick(t, FanCaps)
    \/ \E i \in 1..Len(fetches) :
          \E resp \in Responses(fetches[i].continuation, FanCaps.actions) :
              FetchComplete(i, resp, FanCaps)
    \/ FlushTimer

SpecFan == StartsAs(FanStart) /\ [][NextFan]_vars

\* C17: no step writes a frame (immediate event, direct reply or batch) to
\* a socket that is not OPEN when the step is taken, and a socket that is not
\* OPEN never becomes OPEN again: what it missed is never sent to it later.
C17_NoSendUnlessOpen ==
    [][\A c \in DOMAIN received :
          readyState[c] # "OPEN" =>
              /\ received'[c] = received[c]
              /\ readyState'[c] # "OPEN"]_vars

\* a socket has left OPEN and the other, still OPEN, has since been sent an
\* immediate event and a batch that the first never got
C17_Witness ==
    \E c, d \in DOMAIN received :
        /\ readyState[c] # "OPEN"
        /\ readyState[d] = "OPEN"
        /\ \E i, j \in (Len(received[c]) + 1)..Len(received[d]) :
              /\ received[d][i].type = "batch"
              /\ received[d][j].type \in immediateTypes

(***************************************************************************)
(* SpecThrow: two sessions are connected and a batch is two events short   *)
(* of MAX_BATCH_SIZE.  send() of a socket may throw while a frame of a     *)
(* session is handled; the exception ends the send loop and is caught by   *)
(* the catch of the message handler.                                       *)
(***************************************************************************)
\* the registered sockets in the order the Set clients iterates them: the
\* order they were added, which is the order of their session numbers
RECURSIVE Ordered(_)
Ordered(cs) ==
    IF cs = {} THEN << >>
    ELSE LET c == CHOOSE x \in cs : \A y \in cs : x <= y
         IN  << c >> \o Ordered(cs \ {c})

\* the send loop over the sockets in order, where send() of socket b throws
RECURSIVE SendUntilThrow(_, _, _, _)
SendUntilThrow(E, order, payload, b) ==
    IF order = << >> THEN [E |-> E, threw |-> FALSE]
    ELSE LET c == Head(order)
         IN  IF E.readyState[c] # "OPEN"
             THEN SendUntilThrow(E, Tail(order), payload, b)
             ELSE IF c = b
             THEN [E |-> [E EXCEPT !.thrown = Append(E.thrown, b)], threw |-> TRUE]
             ELSE SendUntilThrow(SendOne(E, c, payload), Tail(order), payload, b)

\* flushBatch() where send() of socket b throws: the statements after the
\* loop are not reached
flushBatchThrows(E, b) ==
    IF E.batch.queue = << >>
    THEN E
    ELSE LET r == SendUntilThrow(E, Ordered(E.clients),
                      [type |-> "batch", messages |-> E.batch.queue], b)
         IN  IF r.threw THEN r.E
             ELSE [r.E EXCEPT !.batch = [queue |-> << >>, timeout |-> FALSE]]

\* broadcast(type, data, options) where send() of socket b throws
broadcastThrows(E, type, data, immediate, b) ==
    LET message == [type |-> type, data |-> data, n |-> E.n + 1]
        shouldBatch == ~immediate /\ type \notin immediateTypes
        E1 == [E EXCEPT !.n = E.n + 1]
    IN  IF shouldBatch /\ BATCH_DELAY > 0
        THEN LET pushed == [E1 EXCEPT !.batch.queue = Append(E1.batch.queue, message)]
             IN  IF Len(pushed.batch.queue) >= MAX_BATCH_SIZE
                 THEN flushBatchThrows([pushed EXCEPT !.timers =
                                           IF pushed.batch.timeout /\ pushed.timers > 0
                                           THEN pushed.timers - 1 ELSE pushed.timers], b)
                 ELSE IF ~pushed.batch.timeout
                 THEN [pushed EXCEPT !.batch.timeout = TRUE, !.timers = pushed.timers + 1]
                 ELSE pushed
        ELSE SendUntilThrow(E1, Ordered(E1.clients), message, b).E

\* ws.on('message', ...) of session c for an unpin or update_ticker frame m
\* that the rate limiter allows, where send() of socket b throws
wsOnMessageThrows(W, c, m, b) ==
    LET W1 == rateCheck(W, c)
    IN  IF m.type = "unpin"
        THEN [W1 EXCEPT !.state.pinnedMessage = NoItem,
                        !.E = broadcastThrows(W1.E, "pin", [message |-> NoItem],
                                              FALSE, b)]
        ELSE LET s1 == caseUpdateTicker(W1, m).state
             IN  [W1 EXCEPT !.state = s1,
                            !.E = broadcastThrows(W1.E, "ticker_update",
                                      [tickerItems |-> s1.tickerItems,
                                       tickerSpeed |-> s1.tickerSpeed,
                                       showTicker |-> s1.showTicker,
                                       tickerStyle |-> s1.tickerStyle,
                                       sportsTicker |-> s1.sportsTicker], FALSE, b)]

\* broadcast() calls of a run of SpecThrow
MaxThrow == 3

TickerNews ==
    FeatureMsg("update_ticker",
        [items |-> "NEWS", speed |-> Undefined, show |-> Undefined,
         style |-> Undefined, sportsTicker |-> << >>])

ThrowStart ==
    Watched(sendMany(connection(connection(Fresh)), 1, TickerNews,
                     MAX_BATCH_SIZE - 2))

ThrowCaps ==
    [clients |-> 2,
     msgs |-> [c \in 1..2 |-> IF c = 1 THEN MAX_BATCH_SIZE + MaxThrow ELSE MaxThrow],
     emit |-> ThrowStart.E.n + MaxThrow, manual |-> 0,
     inflight |-> 0, actions |-> 0]

ThrowMessages == {Msg("unpin", NoUrl, 0, FALSE), TickerNews}

\* ws.on('message', ...) for socket c and frame m; send() of socket b throws
WsMessageThrows(c, m, b, K) ==
    /\ c \in clients
    /\ readyState[c] = "OPEN"
    /\ b \in clients
    /\ readyState[b] = "OPEN"
    /\ emitted < K.emit
    /\ CountAfter(c) <= K.msgs[c]
    /\ SetWorld(wsOnMessageThrows(World, c, m, b))

NextThrow ==
    \/ \E c \in clients, m \in ThrowMessages : WsMessage(c, m, ThrowCaps)
    \/ \E c, b \in clients, m \in ThrowMessages : WsMessageThrows(c, m, b, ThrowCaps)
    \/ FlushTimer

SpecThrow == StartsAs(ThrowStart) /\ [][NextThrow]_vars

\* C18: a step in which send() of one socket throws still writes the frame
\* to every other OPEN socket, and leaves the batch engine able to go on:
\* fewer than MAX_BATCH_SIZE events pending, and a flush timer outstanding
\* when events are pending.
C18_ThrowIsolated ==
    [][thrown' # thrown =>
          LET b == thrown'[Len(thrown')]
          IN  /\ \A c \in clients \ {b} :
                    readyState[c] = "OPEN" =>
                        Len(received'[c]) = Len(received[c]) + 1
              /\ Len(messageBatch'.queue) < MAX_BATCH_SIZE
              /\ messageBatch'.queue # << >> => flushTimers' > 0]_vars

(***************************************************************************)
(* SpecSilent: the poller runs on stream A and two sessions are connected. *)
(* Session 2 sends only frames that are malformed or of an unknown type,   *)
(* and has used its rate window up to two frames; session 1 sends control  *)
(* frames.                                                                 *)
(***************************************************************************)
SilentStart ==
    Watched(sendMany(connection(Running), 2, Msg("bogus", NoUrl, 0, FALSE),
                     RATE_LIMIT_MAX - 2))

SilentCaps ==
    [clients |-> 2,
     msgs |-> [c \in 1..2 |-> IF c = 2 THEN RATE_LIMIT_MAX + MaxOver ELSE 1 + MaxOver],
     emit |-> SilentStart.E.n + MaxOver,
     manual |-> 0, inflight |-> 1, actions |-> 1]

NextSilent ==
    \/ \E m \in SilentMessages : WsMessage(2, m, SilentCaps)
    \/ \E m \in {Msg("unpin", NoUrl, 0, FALSE), Msg("disconnect", NoUrl, 0, FALSE)} :
          WsMessage(1, m, SilentCaps)
    \/ \E t \in timers : PollTick(t, SilentCaps)
    \/ \E i \in 1..Len(fetches) :
          \E resp \in Responses(fetches[i].continuation, SilentCaps.actions) :
              FetchComplete(i, resp, SilentCaps)
    \/ FlushTimer

SpecSilent == StartsAs(SilentStart) /\ [][NextSilent]_vars

\* the step is the handling of a frame of session c
FrameOf(c) ==
    /\ c \in DOMAIN checks'
    /\ c \notin DOMAIN checks \/ checks'[c] # checks[c]

\* the step changes neither the state store nor the poller, sends nothing
\* and leaves every session registered as it was
Ignored ==
    /\ state' = state
    /\ << scraper, timers, timerCount, fetches, starts, stopCount >>'
          = << scraper, timers, timerCount, fetches, starts, stopCount >>
    /\ << messageBatch, flushTimers, emitted, lastBroadcastState >>'
          = << messageBatch, flushTimers, emitted, lastBroadcastState >>
    /\ received' = received
    /\ clients' = clients
    /\ readyState' = readyState

\* C19 as stated: every malformed or unknown frame (every frame of session
\* 2) is ignored: state store and poller unchanged, nothing sent to any
\* session.
C19_SilentIgnored == [][FrameOf(2) => Ignored]_vars

\* C19 amended: every malformed or unknown frame that checkRateLimit allows
\* is ignored; a frame beyond the rate limit is answered with the rate-limit
\* error like any other frame.
C19_AllowedSilentIgnored ==
    [][(FrameOf(2) /\ checks'[2].results[Len(checks'[2].results)]) => Ignored]_vars

\* session 2 has had its 100th frame, a malformed or unknown one, handled
\* and is still open, and the server has since handled an unpin of session 1
C19_Witness ==
    /\ 2 \in DOMAIN rateLimits
    /\ rateLimits[2].count = RATE_LIMIT_MAX
    /\ readyState[2] = "OPEN"
    /\ received[2] # << >>
    /\ received[2][Len(received[2])].type = "pin"

(***************************************************************************)
(* SpecFeature: sessions connect and send the frames of the ticker, the    *)
(* slideshow and the sports ticker.                                        *)
(***************************************************************************)
\* frames of a session and broadcast() calls of a run of SpecFeature
MaxFeature == 2

FeatureCaps ==
    [clients |-> 2, msgs |-> [c \in 1..2 |-> MaxFeature],
     emit |-> MaxFeature, manual |-> 0, inflight |-> 0, actions |-> 0]

NextFeature ==
    \/ NewConnection(FeatureCaps)
    \/ \E c \in clients : BeginClose(c)
    \/ \E c \in clients : OnClose(c)
    \/ \E c \in clients, m \in FeatureMessages : WsMessage(c, m, FeatureCaps)
    \/ FlushTimer

SpecFeature == Init /\ [][NextFeature]_vars

\* C20: no event of an allowlisted kind (status, error, init, pin, the
\* slideshow, ticker and sports ticker init and update events, state deltas)
\* is ever pending in the batch queue or delivered inside a batch: each was
\* sent within its broadcast() call.
C20_AllowlistedNeverBatched ==
    LET kinds == { "status", "error", "init", "pin", "slideshow_init",
                   "slideshow_update", "ticker_update", "sports_ticker_init",
                   "sports_ticker_update", "state_delta" }
    IN  /\ \A i \in 1..Len(messageBatch.queue) :
              messageBatch.queue[i].type \notin kinds
        /\ \A c \in DOMAIN received : \A i \in 1..Len(received[c]) :
              received[c][i].type = "batch" =>
                  \A j \in 1..Len(received[c][i].messages) :
                      received[c][i].messages[j].type \notin kinds

(***************************************************************************)
(* Stream switches, restarts of the poller, the batch engine, the state    *)
(* snapshot and the dedup set.                                             *)
(***************************************************************************)
\* the items of a queue that carry no stream tag, in queue order
RECURSIVE Untagged(_)
Untagged(queue) ==
    IF queue = << >> THEN << >>
    ELSE IF StreamOf(Head(queue).id) = NULL
         THEN << Head(queue) >> \o Untagged(Tail(queue))
         ELSE Untagged(Tail(queue))

\* the step makes a stream the active one that was not the active one before
Switching ==
    /\ state'.videoId \in Streams
    /\ state'.videoId # state.videoId

\* C21: after a step that switches the active stream the queue holds no
\* item tagged with an earlier stream, and the items without a stream tag
\* are all still there, in their order.
C21_SwitchFiltersQueue ==
    [][Switching =>
          /\ \A i \in 1..Len(state'.queue) :
                StreamOf(state'.queue[i].id) \in {NULL, state'.videoId}
          /\ Untagged(state'.queue) = Untagged(state.queue)]_vars

\* the frames of type t the step wrote to the socket of session c
NewFrames(c, t) ==
    { i \in (Len(received[c]) + 1)..Len(received'[c]) : received'[c][i].type = t }

\* C22: a step that switches the active stream writes exactly one
\* stream_changed event to every OPEN session; a successful connect to the
\* stream that is already active writes none and leaves the queue alone.
C22_OneStreamChanged ==
    [][\A c \in clients :
          readyState[c] = "OPEN" =>
              /\ Switching => Cardinality(NewFrames(c, "stream_changed")) = 1
              /\ (timerCount' > timerCount /\ state.videoId \in Streams
                     /\ state'.videoId = state.videoId) =>
                    /\ NewFrames(c, "stream_changed") = {}
                    /\ state'.queue = state.queue]_vars

\* C23: a step that starts the stopped poller leaves it with an empty dedup
\* set and with the cursor that this start resolved from the stream page.
C23_FreshStart ==
    [][(timerCount' > timerCount /\ ~scraper.isRunning) =>
          /\ scraper'.seenMessageIds = {}
          /\ \E i \in 1..Len(starts) :
                scraper'.continuation = starts[i].videoId]_vars

(***************************************************************************)
(* SpecBatch: two sessions are connected and the pending batch is two      *)
(* events short of MAX_BATCH_SIZE, its flush timer armed.  The sessions    *)
(* send frames that emit a batched or an immediate event, and may close.   *)
(***************************************************************************)
\* broadcast() calls of a run of SpecBatch
MaxBatch == 3

BatchStart ==
    Watched(sendMany(connection(connection(Fresh)), 1, TickerNews,
                     MAX_BATCH_SIZE - 2))

BatchCaps ==
    [clients |-> 2,
     msgs |-> [c \in 1..2 |-> IF c = 1 THEN MAX_BATCH_SIZE + MaxBatch ELSE MaxBatch],
     emit |-> BatchStart.E.n + MaxBatch, manual |-> 0,
     inflight |-> 0, actions |-> 0]

NextBatch ==
    \/ \E c \in clients : BeginClose(c)
    \/ \E c \in clients : OnClose(c)
    \/ \E c \in clients, m \in ThrowMessages : WsMessage(c, m, BatchCaps)
    \/ FlushTimer

SpecBatch == StartsAs(BatchStart) /\ [][NextBatch]_vars

\* the sessions stay open
NextBatchLive ==
    \/ \E c \in clients, m \in ThrowMessages : WsMessage(c, m, BatchCaps)
    \/ FlushTimer

\* setTimeout callbacks fire: an armed flush timer does not stay pending
\* for ever
SpecBatchLive ==
    StartsAs(BatchStart) /\ [][NextBatchLive]_vars /\ WF_vars(FlushTimer)

\* the step flushes the batch: a pending timer is gone or the queue shrank
Flushes ==
    \/ flushTimers' < flushTimers
    \/ Len(messageBatch'.queue) < Len(messageBatch.queue)

\* C24: at most one flush timer is outstanding; the timer handle is recorded
\* exactly while that timer is pending, and exactly while events are
\* queued; every flush empties the queue and clears the handle in its step.
C24_OneTimer ==
    /\ [](/\ flushTimers <= 1
          /\ messageBatch.timeout <=> flushTimers = 1
          /\ messageBatch.timeout <=> messageBatch.queue # << >>)
    /\ [][Flushes => /\ messageBatch'.queue = << >>
                     /\ ~messageBatch'.timeout
                     /\ flushTimers' = 0]_vars

\* a batch was flushed by its size while its timer was armed, and a later
\* event is queued with a new timer armed
C24_Witness ==
    /\ messageBatch.queue # << >>
    /\ flushTimers = 1
    /\ \E c \in DOMAIN received : \E i \in 1..Len(received[c]) :
          /\ received[c][i].type = "batch"
          /\ Len(received[c][i].messages) = MAX_BATCH_SIZE

\* the batch frames in a socket's log
Batches(frames) == { i \in 1..Len(frames) : frames[i].type = "batch" }

\* C25: the pending queue always has fewer than MAX_BATCH_SIZE entries (a
\* push that fills it flushes it in the same broadcast call), and no batch
\* frame carries more than MAX_BATCH_SIZE messages.
C25_FlushWhenFull ==
    /\ Len(messageBatch.queue) < MAX_BATCH_SIZE
    /\ \A c \in DOMAIN received : \A i \in Batches(received[c]) :
          Len(received[c][i].messages) <= MAX_BATCH_SIZE

\* the queue was flushed by the push that filled it: a batch of exactly
\* MAX_BATCH_SIZE messages was sent and the queue is empty, no timer pending
C25_Witness ==
    /\ messageBatch.queue = << >>
    /\ flushTimers = 0
    /\ \E c \in DOMAIN received :
          /\ received[c] # << >>
          /\ received[c][Len(received[c])].type = "batch"
          /\ Len(received[c][Len(received[c])].messages) = MAX_BATCH_SIZE

\* the emission numbers of the events a socket received in batch frames, in
\* the order it received them
RECURSIVE BatchNumbers(_)
BatchNumbers(frames) ==
    IF frames = << >> THEN << >>
    ELSE LET f == Head(frames)
         IN  (IF f.type = "batch"
              THEN [i \in 1..Len(f.messages) |-> f.messages[i].n]
              ELSE << >>) \o BatchNumbers(Tail(frames))

\* s is a prefix of t
IsPrefix(s, t) == Len(s) <= Len(t) /\ SubSeq(t, 1, Len(s)) = s

\* C26: a flush writes one batch frame holding the whole pending queue to
\* every session that is OPEN, and nothing to the others, and leaves nothing
\* queued; every session receives the batched events in emission order,
\* none of them twice, and no event still queued has been sent.
C26_OneEnvelope ==
    /\ [][(Flushes /\ messageBatch.queue # << >>) =>
             /\ messageBatch'.queue = << >>
             /\ \A c \in clients :
                   IF readyState[c] = "OPEN"
                   THEN /\ Len(received'[c]) = Len(received[c]) + 1
                        /\ received'[c][Len(received'[c])].type = "batch"
                        /\ IsPrefix(messageBatch.queue,
                                    received'[c][Len(received'[c])].messages)
                   ELSE received'[c] = received[c]]_vars
    /\ [](\A c \in DOMAIN received :
             LET ns == BatchNumbers(received[c])
             IN  /\ \A i, j \in 1..Len(ns) : i < j => ns[i] < ns[j]
                 /\ \A i \in 1..Len(ns), k \in 1..Len(messageBatch.queue) :
                       ns[i] < messageBatch.queue[k].n)

\* one session has left OPEN; the other received a batch that the first did
\* not, and a later event is queued
C26_Witness ==
    /\ messageBatch.queue # << >>
    /\ \E c, d \in DOMAIN received :
          /\ readyState[c] # "OPEN"
          /\ readyState[d] = "OPEN"
          /\ Cardinality(Batches(received[d])) > Cardinality(Batches(received[c]))

\* C27: whenever events are pending in the batch queue a flush timer is
\* armed, and (timers firing) the queue is eventually empty.
C27_EventuallyFlushed ==
    /\ [](messageBatch.queue # << >> => flushTimers > 0)
    /\ (messageBatch.queue # << >>) ~> (messageBatch.queue = << >>)

\* an event was queued after an earlier batch had been flushed by its timer
C27_Witness ==
    /\ messageBatch.queue # << >>
    /\ flushTimers > 0
    /\ \E c \in DOMAIN received : \E i \in Batches(received[c]) :
          Len(received[c][i].messages) < MAX_BATCH_SIZE

(***************************************************************************)
(* The last-broadcast snapshot against the state_delta frames on the wire. *)
(***************************************************************************)
\* { ...obj, ...delta }
Merge(obj, delta) ==
    [key \in DOMAIN obj \cup DOMAIN delta |->
        IF key \in DOMAIN delta THEN delta[key] ELSE obj[key]]

\* the state a session builds from the state_delta frames it was sent, in
\* order, starting from obj
RECURSIVE ApplyDeltas(_, _)
ApplyDeltas(obj, frames) ==
    IF frames = << >> THEN obj
    ELSE ApplyDeltas(IF Head(frames).type = "state_delta"
                         THEN Merge(obj, Head(frames).data)
                         ELSE obj,
                     Tail(frames))

\* C28: the last-broadcast snapshot is the result of applying every
\* state_delta sent so far, in order, to the empty state; a call merges the
\* keys it sends into the snapshot, keeps the value of every other key, and
\* a call that sends nothing leaves the snapshot unchanged.
C28_SnapshotIsFold ==
    /\ [](lastBroadcastState = ApplyDeltas(EmptyObject, received[1]))
    /\ [][lastDelta'.calls > lastDelta.calls =>
             LET sent == lastDelta'.frames[1]
             IN  /\ sent = << >> => lastBroadcastState' = lastBroadcastState
                 /\ sent # << >> =>
                       /\ Len(sent) = 1
                       /\ sent[1].type = "state_delta"
                       /\ lastBroadcastState'
                              = Merge(lastBroadcastState, sent[1].data)
                       /\ \A key \in DOMAIN lastBroadcastState \ DOMAIN sent[1].data :
                              lastBroadcastState'[key] = lastBroadcastState[key]]_vars

(***************************************************************************)
(* Failures in a row and the forced stop (SpecFail).                       *)
(***************************************************************************)
\* the step is a poll that failed
PollFailed == health'.failures = health.failures + 1

MAX_SEEN_MESSAGES == 5000

\* broadcast() calls of a run of SpecSeen
MaxSeen == 6

\* the ids of the items of earlier polls
OldIds == 101..(100 + MAX_SEEN_MESSAGES - 1)

SeenStart == Watched([Running EXCEPT !.scraper.seenMessageIds = OldIds])

SeenCaps ==
    [clients |-> 1, msgs |-> [c \in 1..1 |-> 0],
     emit |-> SeenStart.E.n + MaxSeen, manual |-> 0,
     inflight |-> MaxInflight, actions |-> MaxActions]

NextSeen ==
    \/ \E t \in timers : PollTick(t, SeenCaps)
    \/ \E i \in 1..Len(fetches) :
          \E resp \in Responses(fetches[i].continuation, SeenCaps.actions) :
              FetchComplete(i, resp, SeenCaps)
    \/ FlushTimer

SpecSeen == StartsAs(SeenStart) /\ [][NextSeen]_vars

\* C30: the dedup set never holds more than MAX_SEEN_MESSAGES ids once a
\* poll cycle is over.
C30_SeenBounded == Cardinality(scraper.seenMessageIds) <= MAX_SEEN_MESSAGES

(***************************************************************************)
(* SpecSlide: the rate limiter as a library, with the time of every        *)
(* allowed call kept.  Id 1 opened a window at time 0 and has made all but *)
(* two of the calls the window allows, the later ones in the last ms of    *)
(* the window.  The clock advances by 1 ms or by one window length.        *)
(***************************************************************************)
\* clock advances of a run of SpecSlide
MaxSlideTicks == 1

\* n calls of checkRateLimit(id) in a row (the first half, then the rest)
RECURSIVE callMany(_, _, _)
callMany(W, id, n) ==
    IF n = 0 \/ W.rateLog.allowed = << >> \/ W.rateLog.unswept = << >> THEN W
    ELSE IF n = 1 THEN callCheckRateLimit(W, id)
    ELSE callMany(callMany(W, id, n \div 2), id, n - (n \div 2))

SlideStart ==
    LET W1 == tick(callCheckRateLimit(Fresh, 1), RATE_LIMIT_WINDOW)
    IN  [callMany(W1, 1, RATE_LIMIT_MAX - 3) EXCEPT !.ticks = 0]

\* some caller calls checkRateLimit(id)
CallCheckRateLimit(id) ==
    /\ CountAfter(id) <= RATE_LIMIT_MAX + 1
    /\ SetWorld(callCheckRateLimit(World, id))

SlideTick(d) ==
    /\ ticks < MaxSlideTicks
    /\ SetWorld(tick(World, d))

NextSlide ==
    \/ CallCheckRateLimit(1)
    \/ \E d \in {1, RATE_LIMIT_WINDOW} : SlideTick(d)

SpecSlide == StartsAs(SlideStart) /\ [][NextSlide]_vars

\* C31: for each id, any RATE_LIMIT_MAX + 1 calls that returned allow span
\* at least RATE_LIMIT_WINDOW ms, so that no span of RATE_LIMIT_WINDOW ms,
\* wherever it starts, holds more than RATE_LIMIT_MAX allowed calls.
C31_SlidingWindow ==
    \A id \in DOMAIN rateLog.allowed :
        LET a == rateLog.allowed[id]
        IN  \A i \in 1..(Len(a) - RATE_LIMIT_MAX) :
                a[i + RATE_LIMIT_MAX] - a[i] >= RATE_LIMIT_WINDOW

(***************************************************************************)
(* SpecSweep: the rate limiter with its periodic sweep.  Id 1 has made all *)
(* but one of the calls its window allows; ids 1 and 2 call                *)
(* checkRateLimit, the clock advances, and the sweep runs at any time.     *)
(***************************************************************************)
\* clock advances of a run of SpecSweep
MaxSweepTicks == 3
\* calls of checkRateLimit of a run of SpecSweep
MaxSweepCalls == 3

SweepStart ==
    [callMany(callCheckRateLimit(Fresh, 1), 1, RATE_LIMIT_MAX - 2)
        EXCEPT !.ticks = 0]

SweepCheck(id) ==
    /\ rateLog.calls < SweepStart.rateLog.calls + MaxSweepCalls
    /\ SetWorld(callCheckRateLimit(World, id))

SweepTick(d) ==
    /\ ticks < MaxSweepTicks
    /\ SetWorld(tick(World, d))

\* the sweep's interval fires
CleanupTick ==
    /\ rateLog.sweeps < MaxSweepTicks
    /\ SetWorld(cleanupTick(World))

NextSweep ==
    \/ \E id \in 1..2 : SweepCheck(id)
    \/ \E d \in {1, RATE_LIMIT_WINDOW, CLEANUP_AGE} : SweepTick(d)
    \/ CleanupTick

SpecSweep == StartsAs(SweepStart) /\ [][NextSweep]_vars

\* the step is a sweep
Sweeps == rateLog'.sweeps = rateLog.sweeps + 1

\* C32: a sweep removes exactly the entries whose window ended more than
\* RATE_LIMIT_WINDOW ms ago and keeps every other entry unchanged.
C32_SweepRemovesStale ==
    [][Sweeps =>
          /\ DOMAIN rateLimits' =
                 {id \in DOMAIN rateLimits :
                     ~(now > rateLimits[id].resetTime + RATE_LIMIT_WINDOW)}
          /\ \A id \in DOMAIN rateLimits' : rateLimits'[id] = rateLimits[id]]_vars

\* the step is a call of checkRateLimit
Calls == rateLog'.calls = rateLog.calls + 1

\* C40: the sweep cannot be observed through checkRateLimit: every call
\* returns what it returns when no sweep ever runs (the same calls at the
\* same times on a map that is never swept).
C40_SweepUnobservable ==
    [][Calls =>
          \E id \in DOMAIN checks' :
              /\ checks' # checks
              /\ \A d \in DOMAIN checks : d # id => checks'[d] = checks[d]
              /\ checks'[id].results[Len(checks'[id].results)] = rateLog'.ok]_vars

\* a sweep deleted the entries of ids 1 and 2 (the unswept map still has
\* them) and id 1 was then allowed a call that opened a window
C40_Witness ==
    /\ rateLog.sweeps > 0
    /\ DOMAIN rateLimits # DOMAIN rateLog.unswept
    /\ 1 \in DOMAIN rateLimits
    /\ rateLimits[1].count = 1
    /\ rateLimits[1].resetTime = now + RATE_LIMIT_WINDOW
    /\ rateLog.ok
    /\ 2 \in DOMAIN rateLog.unswept
    /\ 2 \notin DOMAIN rateLimits

(***************************************************************************)
(* lib/routes.js: the per-feature POST routes of createStateRoutes.        *)
(***************************************************************************)
\* requests of a run of SpecHttp
MaxHttp == 4

\* module.exports of lib/broadcast.js
BroadcastExports ==
    {"clients", "broadcast", "broadcastState", "broadcastDelta",
     "broadcastStateChanges", "broadcastNewMessage", "broadcastMessageRemoved",
     "addClient", "removeClient", "getClientCount"}

\* !b
Not(b) == IF b = "true" THEN "false" ELSE "true"

\* the POST routes, one or more per feature, and the function of
\* lib/broadcast.js each calls once it has changed the state
Routes ==
    { [path |-> "/nametags/:slot/toggle", slot |-> s,
       calls |-> "broadcastNametagUpdate"] : s \in {0, 1, 6} }
    \cup
    { [path |-> "/nametags/hide-all", slot |-> 0, calls |-> "broadcastNametagUpdate"],
      [path |-> "/socials/toggle", slot |-> 0, calls |-> "broadcastSocialUpdate"],
      [path |-> "/lower-third/show", slot |-> 0, calls |-> "broadcastLowerThirdUpdate"],
      [path |-> "/lower-third/hide", slot |-> 0, calls |-> "broadcastLowerThirdUpdate"],
      [path |-> "/agenda/toggle", slot |-> 0, calls |-> "broadcastAgendaUpdate"],
      [path |-> "/topic-card/show", slot |-> 0, calls |-> "broadcastTopicCardUpdate"],
      [path |-> "/topic-card/hide", slot |-> 0, calls |-> "broadcastTopicCardUpdate"] }

\* the handler up to its call of lib/broadcast.js: the new state
routeMutation(S, r) ==
    CASE r.path = "/nametags/:slot/toggle" ->
             [S EXCEPT !.nametags[r.slot] = Not(@)]
      [] r.path = "/nametags/hide-all" ->
             [S EXCEPT !.nametags = << "false", "false", "false", "false", "false" >>]
      [] r.path = "/socials/toggle" -> [S EXCEPT !.showSocials = Not(@)]
      [] r.path = "/lower-third/show" ->
             [S EXCEPT !.lowerThird = [visible |-> "true", headline |-> "NEWS"]]
      [] r.path = "/lower-third/hide" -> [S EXCEPT !.lowerThird.visible = "false"]
      [] r.path = "/agenda/toggle" -> [S EXCEPT !.showAgenda = Not(@)]
      [] r.path = "/topic-card/show" ->
             [S EXCEPT !.topicCard = [visible |-> "true", title |-> "TOPIC"]]
      [] OTHER -> [S EXCEPT !.topicCard.visible = "false"]

\* the response of a request with the given status
respond(W, status) ==
    [W EXCEPT !.http = [requests |-> W.http.requests + 1, status |-> status]]

\* a POST on route r.  A slot outside 1..5 is answered 400 before anything
\* is changed.  The handler then changes the state and calls
\* broadcast[r.calls](...): a name lib/broadcast.js does not export is
\* undefined, the call throws a TypeError, and express answers 500; the rest
\* of the handler (res.json) runs only when the call returns.
postRoute(W, r) ==
    IF r.path = "/nametags/:slot/toggle" /\ (r.slot < 1 \/ r.slot > 5)
    THEN respond(W, 400)
    ELSE LET W1 == [W EXCEPT !.state = routeMutation(W.state, r)]
         IN  IF r.calls \notin BroadcastExports
             THEN respond(W1, 500)
             ELSE respond(W1, 200)

(***************************************************************************)
(* SpecHttp: one session is connected and the feature routes are posted    *)
(* to.                                                                     *)
(***************************************************************************)
HttpStart == Watched(connection(Fresh))

PostRoute(r) ==
    /\ http.requests < MaxHttp
    /\ SetWorld(postRoute(World, r))

NextHttp == \E r \in Routes : PostRoute(r)

SpecHttp == StartsAs(HttpStart) /\ [][NextHttp]_vars

\* C33: a feature request that changes the state store broadcasts the
\* changed block to every open session within the request and is answered
\* successfully.
C33_MutationIsBroadcast ==
    [][(http'.requests > http.requests /\ state' # state) =>
          /\ emitted' > emitted
          /\ \A c \in clients :
                 readyState[c] = "OPEN" => Len(received'[c]) > Len(received[c])
          /\ http'.status = 200]_vars

(***************************************************************************)
(* SpecClient: a page uses one BroadcastWSClient.  The page calls          *)
(* connect(), disconnect() and send(); sockets open, fail and close; the   *)
(* reconnect timers fire.  Nothing runs once the onopen loop cannot end.   *)
(***************************************************************************)
\* WebSocket objects a run creates
MaxSockets == 3
\* send() calls of a run
MaxSends == 2
\* connect() and disconnect() calls the page makes in a run
MaxPageCalls == 4

ClientStep(K) ==
    /\ ~wsClient.hung
    /\ SetWorld([World EXCEPT !.wsClient = K])

\* the page calls connect()
PageConnect(throws) ==
    /\ wsClient.pageCalls < MaxPageCalls
    /\ wsClient.tries < MaxSockets
    /\ ClientStep(connect([wsClient EXCEPT !.pageCalls = @ + 1,
                                           !.quiet = FALSE], throws))

\* the page calls disconnect()
PageDisconnect ==
    /\ wsClient.pageCalls < MaxPageCalls
    /\ ClientStep(disconnect([wsClient EXCEPT !.pageCalls = @ + 1]))

\* the page calls send() with its next message
PageSend ==
    /\ wsClient.sends < MaxSends
    /\ ClientStep(send([wsClient EXCEPT !.sends = @ + 1], wsClient.sends + 1))

\* the connection of socket s is established
SocketOpens(s) ==
    /\ wsClient.sockets[s] = "CONNECTING"
    /\ ClientStep(onopen(wsClient, s))

\* the connection of socket s fails or is lost: error, then close
SocketFails(s) ==
    /\ wsClient.sockets[s] \in {"CONNECTING", "OPEN"}
    /\ ClientStep(onclose(onerror(wsClient, s), s, FALSE))

\* socket s is closed by the server, or its closing handshake ends
SocketCloses(s, wasClean) ==
    /\ wsClient.sockets[s] \in {"OPEN", "CLOSING"}
    /\ ClientStep(onclose(wsClient, s, wasClean))

\* a reconnect timer fires
ReconnectTimer(throws) ==
    /\ wsClient.timers > 0
    /\ wsClient.tries < MaxSockets
    /\ ClientStep(connect([wsClient EXCEPT !.timers = @ - 1], throws))

NextClient ==
    \/ \E throws \in BOOLEAN : PageConnect(throws)
    \/ PageDisconnect
    \/ PageSend
    \/ \E s \in 1..Len(wsClient.sockets) : SocketOpens(s)
    \/ \E s \in 1..Len(wsClient.sockets) : SocketFails(s)
    \/ \E s \in 1..Len(wsClient.sockets), wasClean \in BOOLEAN :
          SocketCloses(s, wasClean)
    \/ \E throws \in BOOLEAN : ReconnectTimer(throws)

SpecClient == Init /\ [][NextClient]_vars

\* the step is the opening of socket s
Opens(s) ==
    /\ s \in 1..Len(wsClient.sockets)
    /\ wsClient.sockets[s] = "CONNECTING"
    /\ wsClient'.sockets[s] = "OPEN"

\* C34: a message passed to send() while the socket is not open is queued
\* and send returns false; when a socket opens, every queued message is
\* transmitted once, in queue order, within the open step (so before any
\* later message), and the queue is empty afterwards.
C34_QueuedThenFlushed ==
    [][/\ (wsClient'.sends = wsClient.sends + 1 /\ ~IsOpen(wsClient)) =>
             /\ wsClient'.messageQueue
                    = Append(wsClient.messageQueue, wsClient'.sends)
             /\ ~wsClient'.result
             /\ wsClient'.wire = wsClient.wire
       /\ \A s \in 1..MaxSockets :
             Opens(s) =>
                 /\ ~wsClient'.hung
                 /\ wsClient'.messageQueue = << >>
                 /\ wsClient'.wire = wsClient.wire \o wsClient.messageQueue]_vars

\* C35: from a disconnect() call until the page's next connect() call, no
\* WebSocket is created and no reconnect timer is scheduled.
C35_QuietAfterDisconnect ==
    [][(wsClient.quiet /\ wsClient'.quiet) =>
          /\ wsClient'.tries = wsClient.tries
          /\ wsClient'.timers <= wsClient.timers]_vars

(***************************************************************************)
(* SpecJoin: sessions connect while events are being batched.  The init    *)
(* frame of a session is stamped with the number of events emitted before  *)
(* its snapshot was taken.                                                 *)
(***************************************************************************)
\* frames a session sends in a run of SpecJoin
MaxJoin == 2

\* wss.on('connection', ...) with the init frame stamped
connectionStamped(W) ==
    LET W1 == connection(W)
    IN  [W1 EXCEPT !.E.recv[W1.clientIdCounter][1].n = W.E.n]

JoinCaps ==
    [clients |-> 2, msgs |-> [c \in 1..2 |-> MaxJoin],
     emit |-> 2 * MaxJoin, manual |-> 0, inflight |-> 0, actions |-> 0]

Join ==
    /\ clientIdCounter < JoinCaps.clients
    /\ SetWorld(connectionStamped(World))

NextJoin ==
    \/ Join
    \/ \E c \in clients, m \in ThrowMessages : WsMessage(c, m, JoinCaps)
    \/ FlushTimer

SpecJoin == Init /\ [][NextJoin]_vars

\* C36: every event a session receives after its init frame, alone or in a
\* batch, was emitted after the snapshot of the init frame was taken.
C36_OnlyLaterEvents ==
    \A c \in DOMAIN received :
        received[c] # << >> =>
            LET stamp == received[c][1].n
                later == Tail(received[c])
            IN  /\ received[c][1].type = "init"
                /\ \A i \in 1..Len(later) :
                       later[i].type # "batch" =>
                           (later[i].n = 0 \/ later[i].n > stamp)
                /\ \A i \in 1..Len(BatchNumbers(later)) :
                       BatchNumbers(later)[i] > stamp

(***************************************************************************)
(* SpecRace: a session has sent a connect for stream A and the watch-page  *)
(* fetch of start() is pending.  The session may send disconnect, and no   *)
(* further connect is sent.                                                *)
(***************************************************************************)
\* broadcast() calls of a run of SpecRace
MaxRace == 5

RaceStart ==
    Watched(wsOnMessage(connection(Fresh), 1,
                        Msg("connect", [form |-> "id", v |-> "A"], 0, FALSE)))

RaceCaps ==
    [clients |-> 1, msgs |-> [c \in 1..1 |-> 3],
     emit |-> RaceStart.E.n + MaxRace, manual |-> 0,
     inflight |-> MaxInflight, actions |-> MaxActions]

NextRace ==
    \/ WsMessage(1, Msg("disconnect", NoUrl, 0, FALSE), RaceCaps)
    \/ \E i \in 1..Len(starts), page \in {"live", "nothing", "throw"} :
          StartResolved(i, page)
    \/ \E t \in timers : PollTick(t, RaceCaps)
    \/ \E i \in 1..Len(fetches) :
          \E resp \in Responses(fetches[i].continuation, RaceCaps.actions) :
              FetchComplete(i, resp, RaceCaps)
    \/ FlushTimer

SpecRace == StartsAs(RaceStart) /\ [][NextRace]_vars

\* C37: once a disconnect has been handled, and while no later connect is
\* received, the poller is stopped, isConnected is false and videoId null.
C37_DisconnectSticks ==
    stopCount > 0 =>
        /\ Stopped
        /\ ~state.isConnected
        /\ state.videoId = NULL

\* the step is the handling of a control message that leaves a running
\* poller running: of the control messages only disconnect stops the
\* poller, and only connect addresses it
HandledWhileRunning ==
    /\ rateLimits' # rateLimits
    /\ scraper.isRunning
    /\ scraper'.isRunning

\* C38: a connect request handled while the poller is running leaves the
\* poller as it was (stream id, continuation cursor, API key, dedup set),
\* and state.videoId and state.isConnected with it.
C38_RunningPollerIntact ==
    [][HandledWhileRunning =>
          /\ scraper' = scraper
          /\ state'.videoId = state.videoId
          /\ state'.isConnected = state.isConnected]_vars

(***************************************************************************)
(* SpecAlias: one session is connected; a caller passes the objects it     *)
(* holds to broadcastStateChanges and changes them in place between calls. *)
(***************************************************************************)
\* in-place changes of a run of SpecAlias
MaxChanges == 2

\* the values an in-place change can leave in an object
ObjectValues == { v \in DeltaValues : v.t = "object" }

MutateInPlace(key, value) ==
    /\ live.changes < MaxChanges
    /\ live[key].value # value
    /\ SetWorld(mutateInPlace(World, key, value))

CallWithLiveObjects(keys) ==
    /\ lastDelta.calls < MaxDeltas + 1
    /\ SetWorld(callWithLiveObjects(World, keys))

NextAlias ==
    \/ \E key \in DeltaKeys, value \in ObjectValues : MutateInPlace(key, value)
    \/ \E keys \in SUBSET DeltaKeys : CallWithLiveObjects(keys)

SpecAlias == StartsAs(DeltaStart) /\ [][NextAlias]_vars

\* the value last sent for key: what the state_delta frames on the wire say
LastSent(key) == Get(ApplyDeltas(EmptyObject, received[1]), key)

\* C39: a call of broadcastStateChanges reports every key it is given whose
\* value differs structurally from the value last sent for the key, also
\* when the value is the object of the previous call changed in place.
C39_ChangedKeyReported ==
    [][lastDelta'.calls > lastDelta.calls =>
          \A key \in DOMAIN lastDelta'.arg :
              JSONstringify(lastDelta'.arg[key]) # JSONstringify(LastSent(key)) =>
                  /\ lastDelta'.frames[1] # << >>
                  /\ key \in DOMAIN lastDelta'.frames[1][1].data]_vars
====
